---------------------------- MODULE Spec2Model ----------------------------
(***************************************************************************)
(* A model of lionel-rowe/memoize: the memoize wrapper (src/memoize.ts),   *)
(* its default argument serializer _serializeArgList (src/memoize.ts) and  *)
(* the LruCache backing store (src/unnamed/part_002).                      *)
(*                                                                         *)
(* Specifications:                                                         *)
(*   SpecLru  a caller driving one LruCache with set/get/has/delete;       *)
(*   Spec     one memoized function: calls, settlement of the promises fn  *)
(*            returned, the .catch reaction jobs, explicit cache deletes,  *)
(*            objects becoming unreachable and the finalization callback;  *)
(*   SpecSync a memoized synchronous function over a Map or an LruCache,   *)
(*            with the history of its calls;                               *)
(*   SpecSer  the key-deriving function called directly on values of every *)
(*            kind;                                                        *)
(*   SpecGc   a memoized function called with two objects that are         *)
(*            reclaimed in either order;                                   *)
(*   SpecMod  the older serializer of src/unnamed/part_003 called          *)
(*            directly, with a caller storing under the keys it returns;   *)
(*   SpecSym  a memoized function called with registered symbols, unique   *)
(*            symbols and an object that is reclaimed;                     *)
(*   SpecOpts a function memoized with options: a getKey or a cache object *)
(*            of the caller's, truncateArgs, object receivers;             *)
(*   SpecInv  a memoized function whose caller invalidates entries through *)
(*            the exposed cache and getKey;                                *)
(*   SpecFly  the exported memoize, itself memoized on fn and the option   *)
(*            values, and the wrappers it returns;                         *)
(*   SpecTwo  the wrappers of two functions side by side, each with its    *)
(*            own Map and serializer, sharing an argument object;          *)
(*   SpecUndef a memoized function that returns undefined;                 *)
(*   SpecKey  a memoized function whose caller also calls the exposed      *)
(*            getKey directly;                                             *)
(*   SpecFib  the recursive fibonacci: fn calling the wrapper during a     *)
(*            miss.                                                        *)
(***************************************************************************)
EXTENDS Integers, Sequences, FiniteSets, TLC

VARIABLES
    cache,                      \* the backing store: entries in Map iteration order
    maxSize,                    \* LruCache.maxSize; 0 when the store is a plain Map
    last,                       \* history: the last operation and what it returned
    clock,                      \* history: number of operations performed so far
    lastTouch,                  \* history: LRU key -> clock of its last touch (0: not stored)
    scen,                       \* history: progress through the sets 1,2,1,3,4 (-1: left it)
    cacheKind,                  \* "Map" (the default store), "LruCache" or a caller's object
    truncateArgs,               \* options.truncateArgs
    fnKind,                     \* the memoized fn: "sync", "throws" or "async"
    weakKeyToKeySegmentCache,   \* serializer: WeakMap object -> key segment
    weakKeySegmentToKeyCache,   \* serializer: Map key segment -> keys that use it
    i,                          \* serializer: the next reference token
    registry,                   \* serializer: FinalizationRegistry registrations
    reachable,                  \* the objects the program still holds
    promises,                   \* the promises created so far, by identity
    hist,                       \* history: key -> fn invocations and the last miss
    tampered,                   \* history: the caller deleted a cache entry
    strongKeySegmentCache,      \* older serializer: Map of values that cannot be held weakly
    calls,                      \* history: [this, ...args] of a call -> its key and time
    hookError,                  \* history: an exception escaped the cleanup hook
    getKeyKind,                 \* options.getKey: "default" (none given) or a caller's function
    heap,                       \* the fields b and c of the objects used as receivers
    wrappers,                   \* on-the-fly: the wrappers memoize created, by identity
    stores,                     \* on-the-fly: the Map objects the wrappers cache in
    invoked,                    \* history: <<fn, Map object>> -> invocations of fn
    stack                       \* re-entrant use: the running invocations of fn, outermost first

memoVars == <<cacheKind, truncateArgs, fnKind, weakKeyToKeySegmentCache,
              weakKeySegmentToKeyCache, i, registry, reachable, promises, hist,
              tampered, strongKeySegmentCache, calls, hookError, getKeyKind, heap,
              wrappers, stores, invoked, stack>>

vars == <<cache, maxSize, last, clock, lastTouch, scen, memoVars>>

---------------------------------------------------------------------------
(* Bounds of the model.                                                    *)

MaxOps == 5                     \* operations a caller performs on the LruCache
MaxMaxSize == 3                 \* largest maxSize an LruCache is constructed with
MaxCalls == 3                   \* calls made to the memoized function
MaxMemoLru == 1                 \* largest maxSize of an LruCache backing the memoizer
MaxAsync == 2                   \* promises the memoized fn returns
MaxSyncCalls == 4               \* calls made to a memoized synchronous function
MaxSyncLru == 2                 \* largest maxSize of the LruCache backing it
MaxGetKeys == 3                 \* direct calls of the key-deriving function
MaxGcCalls == 3                 \* calls made while objects are reclaimed
MaxGcLru == 1                   \* largest maxSize of the LruCache backing them
MaxGcAsync == 1                 \* promises fn returns while objects are reclaimed
MaxSymCalls == 4                \* calls made with registered symbols
MaxOptCalls == 3                \* calls of a function memoized with options
MaxInvOps == 4                  \* calls and invalidations of a memoized function
MaxMemoize == 3                 \* calls of the exported memoize
MaxUndefCalls == 4              \* calls of a memoized function that returns undefined
MaxUndefLru == 2                \* largest maxSize of the LruCache backing it

---------------------------------------------------------------------------
(* JavaScript values. Every value is a record of the same shape, so that   *)
(* any two of them can be compared.                                        *)

Undefined == [t |-> "undefined", n |-> 0, s |-> ""]
Num(n) == [t |-> "number", n |-> n, s |-> ""]
Str(s) == [t |-> "string", n |-> 0, s |-> s]

---------------------------------------------------------------------------
(* The built-in Map the caches extend: entries [k, v] in insertion order.  *)

Entry(k, v) == [k |-> k, v |-> v]

Keys(c) == [j \in 1..Len(c) |-> c[j].k]

KeySet(c) == {c[j].k : j \in 1..Len(c)}

Map_has(c, k) == \E j \in 1..Len(c) : c[j].k = k

Map_get(c, k) ==
    IF Map_has(c, k)
    THEN c[CHOOSE j \in 1..Len(c) : c[j].k = k].v
    ELSE Undefined

Map_delete(c, k) == SelectSeq(c, LAMBDA e : e.k # k)

\* Map.prototype.set: an existing key keeps its position, a new key is appended.
Map_set(c, k, v) ==
    IF Map_has(c, k)
    THEN [j \in 1..Len(c) |-> IF c[j].k = k THEN Entry(k, v) ELSE c[j]]
    ELSE Append(c, Entry(k, v))

---------------------------------------------------------------------------
(* LruCache (src/unnamed/part_002). Each method is an operator from the    *)
(* entries before the call to [c: the entries after it, ret: its result].  *)

setMostRecentlyUsed_InPlace(c, k, v) == Map_set(c, k, v)

setMostRecentlyUsed(c, k, v) == Map_set(Map_delete(c, k), k, v)

pruneToMaxSize_Never(c, max) == c

pruneToMaxSize(c, max) ==
    IF Len(c) > max THEN Map_delete(c, c[1].k) ELSE c

LruCache_has_NoTouch(c, k) == [c |-> c, ret |-> Map_has(c, k)]

LruCache_has_DropsValue(c, k) ==
    LET exists == Map_has(c, k)
    IN  [c   |-> IF exists THEN setMostRecentlyUsed(c, k, Undefined) ELSE c,
         ret |-> exists]

LruCache_has(c, k) ==
    LET exists == Map_has(c, k)
    IN  [c   |-> IF exists THEN setMostRecentlyUsed(c, k, Map_get(c, k)) ELSE c,
         ret |-> exists]

LruCache_get_Truthy(c, k) ==
    LET value == Map_get(c, k)
    IN  IF value # Undefined
        THEN [c |-> setMostRecentlyUsed(c, k, value), ret |-> value]
        ELSE [c |-> c, ret |-> Undefined]

LruCache_get(c, k) ==
    IF Map_has(c, k)
    THEN LET value == Map_get(c, k)
         IN  [c |-> setMostRecentlyUsed(c, k, value), ret |-> value]
    ELSE [c |-> c, ret |-> Undefined]

LruCache_set(c, max, k, v) ==
    [c |-> pruneToMaxSize(setMostRecentlyUsed(c, k, v), max), ret |-> Undefined]

\* delete is not overridden: Map.prototype.delete, which returns whether it removed.
LruCache_delete_First(c, k) ==
    [c |-> IF Map_has(c, k) THEN Tail(c) ELSE c, ret |-> Map_has(c, k)]

LruCache_delete(c, k) == [c |-> Map_delete(c, k), ret |-> Map_has(c, k)]

---------------------------------------------------------------------------
(* SpecLru: a caller driving one LruCache.                                 *)

LruKeys == {1, 2, 3, 4}

LruValues == {Undefined, Str("!"), Str("updated")}

\* The sets of the test "deletes least-recently-used".
ScenOps == <<Entry(1, Str("!")), Entry(2, Str("!")), Entry(1, Str("updated")),
             Entry(3, Str("!")), Entry(4, Str("!"))>>

NoOp ==
    [op |-> "none", key |-> 0, val |-> Undefined, ret |-> Undefined,
     exists |-> FALSE, size |-> 0]

\* lastTouch after an operation that touched key k at time t and left cache c.
Touched(c, k, t) ==
    [x \in LruKeys |-> IF ~Map_has(c, x) THEN 0
                       ELSE IF x = k THEN t
                       ELSE lastTouch[x]]

\* lastTouch after an operation that touched nothing and left cache c.
Untouched(c) == [x \in LruKeys |-> IF Map_has(c, x) THEN lastTouch[x] ELSE 0]

InitLru ==
    /\ cache = <<>>
    /\ maxSize \in 1..MaxMaxSize
    /\ last = NoOp
    /\ clock = 0
    /\ lastTouch = [x \in LruKeys |-> 0]
    /\ scen = 0
    /\ cacheKind = "LruCache"
    /\ truncateArgs = FALSE
    /\ fnKind = "sync"
    /\ weakKeyToKeySegmentCache = <<>>
    /\ weakKeySegmentToKeyCache = <<>>
    /\ i = 0
    /\ registry = {}
    /\ reachable = {}
    /\ promises = <<>>
    /\ hist = <<>>
    /\ tampered = FALSE
    /\ strongKeySegmentCache = <<>>
    /\ getKeyKind = "default"
    /\ heap = <<>>
    /\ calls = <<>>
    /\ wrappers = <<>>
    /\ stores = <<>>
    /\ invoked = <<>>
    /\ stack = <<>>
    /\ hookError = FALSE

LruSet(k, v) ==
    /\ clock < MaxOps
    /\ LET r == LruCache_set(cache, maxSize, k, v)
       IN  /\ cache' = r.c
           /\ last' = [op |-> "set", key |-> k, val |-> v, ret |-> Undefined,
                       exists |-> Map_has(cache, k), size |-> Len(cache)]
           /\ lastTouch' = Touched(r.c, k, clock + 1)
    /\ clock' = clock + 1
    /\ scen' = IF scen >= 0 /\ scen < Len(ScenOps) /\ ScenOps[scen + 1] = Entry(k, v)
               THEN scen + 1
               ELSE -1
    /\ UNCHANGED <<maxSize, memoVars>>

LruGet(k) ==
    /\ clock < MaxOps
    /\ LET r == LruCache_get(cache, k)
       IN  /\ cache' = r.c
           /\ last' = [op |-> "get", key |-> k, val |-> Undefined, ret |-> r.ret,
                       exists |-> Map_has(cache, k), size |-> Len(cache)]
           /\ lastTouch' = IF Map_has(cache, k) THEN Touched(r.c, k, clock + 1)
                                                ELSE Untouched(r.c)
    /\ clock' = clock + 1
    /\ scen' = -1
    /\ UNCHANGED <<maxSize, memoVars>>

LruHas(k) ==
    /\ clock < MaxOps
    /\ LET r == LruCache_has(cache, k)
       IN  /\ cache' = r.c
           /\ last' = [op |-> "has", key |-> k, val |-> Undefined, ret |-> Undefined,
                       exists |-> r.ret, size |-> Len(cache)]
           /\ lastTouch' = IF Map_has(cache, k) THEN Touched(r.c, k, clock + 1)
                                                ELSE Untouched(r.c)
    /\ clock' = clock + 1
    /\ scen' = -1
    /\ UNCHANGED <<maxSize, memoVars>>

LruDelete(k) ==
    /\ clock < MaxOps
    /\ LET r == LruCache_delete(cache, k)
       IN  /\ cache' = r.c
           /\ last' = [op |-> "delete", key |-> k, val |-> Undefined, ret |-> Undefined,
                       exists |-> r.ret, size |-> Len(cache)]
           /\ lastTouch' = Untouched(r.c)
    /\ clock' = clock + 1
    /\ scen' = -1
    /\ UNCHANGED <<maxSize, memoVars>>

NextLru ==
    \/ \E k \in LruKeys, v \in LruValues : LruSet(k, v)
    \/ \E k \in LruKeys : LruGet(k)
    \/ \E k \in LruKeys : LruHas(k)
    \/ \E k \in LruKeys : LruDelete(k)

SpecLru == InitLru /\ [][NextLru]_vars

---------------------------------------------------------------------------
(* The default serializer, _serializeArgList (src/memoize.ts 239-301).     *)

Null == [t |-> "null", n |-> 0, s |-> ""]
Bool(b) == [t |-> "boolean", n |-> IF b THEN 1 ELSE 0, s |-> ""]
NaN == [t |-> "number", n |-> 0, s |-> "NaN"]
BigInt(n) == [t |-> "bigint", n |-> n, s |-> ""]
Obj(n) == [t |-> "object", n |-> n, s |-> ""]
Func(n) == [t |-> "function", n |-> n, s |-> ""]
\* Symbol(description): a unique symbol with identity n >= 1.
Sym(n, s) == [t |-> "symbol", n |-> n, s |-> s]
\* Symbol.for(description): a registered symbol, which cannot be held weakly.
SymFor(s) == [t |-> "symbol", n |-> 0, s |-> s]
Err(s) == [t |-> "error", n |-> 0, s |-> s]
PromiseRef(id) == [t |-> "promise", n |-> id, s |-> ""]

\* The number -0.
NegZero == [t |-> "number", n |-> 0, s |-> "-0"]

JSON_stringify_SignedZero(arg) ==
    CASE arg.t = "string"  -> "\"" \o arg.s \o "\""
      [] arg.t = "number"  -> IF arg.s = "NaN" THEN "null"
                              ELSE IF arg.s = "-0" THEN "-0" ELSE ToString(arg.n)
      [] arg.t = "boolean" -> IF arg.n = 1 THEN "true" ELSE "false"
      [] OTHER             -> "null"

\* JSON.stringify on null, a string without quotes or backslashes, a boolean
\* or a number (NaN gives null, -0 gives 0).
JSON_stringify(arg) ==
    CASE arg.t = "string"  -> "\"" \o arg.s \o "\""
      [] arg.t = "number"  -> IF arg.s = "NaN" THEN "null" ELSE ToString(arg.n)
      [] arg.t = "boolean" -> IF arg.n = 1 THEN "true" ELSE "false"
      [] OTHER             -> "null"

\* new WeakRef(arg) succeeds: objects, functions and unregistered symbols.
assertWeakKey_AnySymbol(arg) == arg.t \in {"object", "function", "symbol"}

assertWeakKey(arg) ==
    \/ arg.t \in {"object", "function"}
    \/ arg.t = "symbol" /\ arg.n >= 1

\* The reference token made from the counter: `{${i++}}`.
keySegmentOf_Constant(n) == "{0}"

keySegmentOf(n) == "{" \o ToString(n) \o "}"

\* One step of the map callback over [this, ...args]. st carries the
\* serializer's closure state (i, w2s = weakKeyToKeySegmentCache, reg = the
\* FinalizationRegistry's registrations) and the call's locals (segs =
\* keySegments, weak = weakKeySegments).
serializeArg(st, arg) ==
    IF arg.t = "undefined" THEN [st EXCEPT !.segs = Append(@, "undefined")]
    ELSE IF arg.t = "bigint" THEN [st EXCEPT !.segs = Append(@, ToString(arg.n) \o "n")]
    ELSE IF arg.t \notin {"symbol", "function", "object"}
    THEN [st EXCEPT !.segs = Append(@, JSON_stringify(arg))]
    ELSE IF ~assertWeakKey(arg)
    THEN [st EXCEPT !.segs = Append(@, "Symbol.for(" \o JSON_stringify(Str(arg.s)) \o ")")]
    ELSE IF arg \notin DOMAIN st.w2s
    THEN LET keySegment == keySegmentOf(st.i)
         IN  [i    |-> st.i + 1,
              w2s  |-> (arg :> keySegment) @@ st.w2s,
              reg  |-> st.reg \cup {[target |-> arg, held |-> keySegment]},
              segs |-> Append(st.segs, keySegment),
              weak |-> st.weak \o <<keySegment, keySegment>>]
    ELSE [st EXCEPT !.segs = Append(@, st.w2s[arg]),
                    !.weak = Append(@, st.w2s[arg])]

RECURSIVE mapArgs(_, _)
mapArgs(st, list) ==
    IF list = <<>> THEN st
    ELSE mapArgs(serializeArg(st, Head(list)), Tail(list))

RECURSIVE join(_)
join(segs) ==
    IF segs = <<>> THEN ""
    ELSE IF Len(segs) = 1 THEN segs[1]
    ELSE segs[1] \o "," \o join(Tail(segs))

\* The loop over weakKeySegments: append key to the index entry of each.
pushKey_FirstOnly(index, weak, key) ==
    IF weak = <<>> THEN index
    ELSE LET keySegment == Head(weak)
             keys == IF keySegment \in DOMAIN index THEN index[keySegment] ELSE <<>>
         IN  (keySegment :> Append(keys, key)) @@ index

RECURSIVE pushKey(_, _, _)
pushKey(index, weak, key) ==
    IF weak = <<>> THEN index
    ELSE LET keySegment == Head(weak)
             keys == IF keySegment \in DOMAIN index THEN index[keySegment] ELSE <<>>
         IN  pushKey((keySegment :> Append(keys, key)) @@ index, Tail(weak), key)

\* The key-deriving function applied to [this, ...args]: the key and the
\* serializer state after the call.
serializeArgList(n, w2s, reg, index, list) ==
    LET st  == mapArgs([i |-> n, w2s |-> w2s, reg |-> reg, segs |-> <<>>, weak |-> <<>>],
                       list)
        key == join(st.segs)
    IN  [key |-> key, i |-> st.i, w2s |-> st.w2s, reg |-> st.reg,
         index |-> pushKey(index, st.weak, key)]

---------------------------------------------------------------------------
(* The backing store of a memoized function: the default Map, an LruCache  *)
(* passed as options.cache, or a caller's own object passed as             *)
(* options.cache: "Useless" ({has: () => false, get: () => { throw }, set  *)
(* and delete doing nothing}) and "Throwing" (the same with a has that     *)
(* throws).                                                                *)

CustomKinds == {"Useless", "Throwing"}

\* The error thrown by the get of the useless cache.
GetError == Err("has is always false, so get is never called")

\* The error thrown by the has of the throwing cache.
HasError == Err("has")

\* Whether cache.has(k) throws.
cache_has_throws_Never(kind) == FALSE

cache_has_throws(kind) == kind = "Throwing"

cache_has(kind, c, k) ==
    CASE kind = "Map"         -> [c |-> c, ret |-> Map_has(c, k)]
      [] kind = "LruCache"    -> LruCache_has(c, k)
      [] kind \in CustomKinds -> [c |-> c, ret |-> FALSE]

\* Whether cache.get(k) throws.
cache_get_throws(kind) == kind \in CustomKinds

cache_get(kind, c, k) ==
    CASE kind = "Map"         -> [c |-> c, ret |-> Map_get(c, k)]
      [] kind = "LruCache"    -> LruCache_get(c, k)
      [] kind \in CustomKinds -> [c |-> c, ret |-> GetError]

cache_set_Unbounded(kind, c, max, k, v) == [c |-> Map_set(c, k, v), ret |-> Undefined]

cache_set(kind, c, max, k, v) ==
    CASE kind = "Map"         -> [c |-> Map_set(c, k, v), ret |-> Undefined]
      [] kind = "LruCache"    -> LruCache_set(c, max, k, v)
      [] kind \in CustomKinds -> [c |-> c, ret |-> Undefined]

cache_delete_Keeps(kind, c, k) == [c |-> c, ret |-> Map_has(c, k)]

cache_delete(kind, c, k) ==
    IF kind \in CustomKinds THEN [c |-> c, ret |-> Undefined]
    ELSE [c |-> Map_delete(c, k), ret |-> Map_has(c, k)]

\* Whether cache.delete(k) throws: Map.prototype.delete returns a boolean for
\* every key, present or not.
cache_delete_throws_IfAbsent(kind, c, k) == ~Map_has(c, k)

cache_delete_throws(kind, c, k) == FALSE

\* The loop over the keys of a keySegment: cache.delete(key) for each, up to
\* the first delete that throws.
RECURSIVE deleteAll(_, _, _)
deleteAll(kind, c, keys) ==
    IF keys = <<>> THEN [c |-> c, threw |-> FALSE]
    ELSE IF cache_delete_throws(kind, c, Head(keys)) THEN [c |-> c, threw |-> TRUE]
    ELSE deleteAll(kind, cache_delete(kind, c, Head(keys)).c, Tail(keys))

\* The FinalizationRegistry callback for a held keySegment: delete its keys
\* from the cache, then its entry from the index.
cleanup_ClearsCache(kind, c, index, keySegment) ==
    [c     |-> <<>>,
     index |-> [s \in DOMAIN index \ {keySegment} |-> index[s]],
     threw |-> FALSE]

cleanup(kind, c, index, keySegment) ==
    LET keys == IF keySegment \in DOMAIN index THEN index[keySegment] ELSE <<>>
        done == deleteAll(kind, c, keys)
    IN  [c     |-> done.c,
         index |-> IF done.threw THEN index
                   ELSE [s \in DOMAIN index \ {keySegment} |-> index[s]],
         threw |-> done.threw]

---------------------------------------------------------------------------
(* memoize (src/memoize.ts 193-236).                                       *)

\* fn.length of the memoized function.
FnLength == 1

\* if (truncateArgs) args = args.slice(0, fn.length)
slice(args, n) == SubSeq(args, 1, IF Len(args) < n THEN Len(args) ELSE n)

truncate_Never(trunc, args) == args

truncate(trunc, args) == IF trunc THEN slice(args, FnLength) ELSE args

\* cache.set(key, val) at the end of a miss.
store_Skip(kind, c, max, key, val) == c

store_SettledOnly(kind, c, max, key, val) ==
    IF val.t = "promise" THEN c ELSE cache_set(kind, c, max, key, val).c

store(kind, c, max, key, val) == cache_set(kind, c, max, key, val).c

\* The rejection handler passed to val.catch: cache.delete(key), then rethrow.
catchHandler_NoDelete(kind, c, key) == c

catchHandler(kind, c, key) == cache_delete(kind, c, key).c

\* The value cached for a promise p that fn returned: val is reassigned to
\* val.catch(...), a new promise q, before cache.set(key, val).
cachedPromise_Original(p, q) == PromiseRef(p)

cachedPromise(p, q) == PromiseRef(q)

\* A miss on which fn throws: the exception leaves the wrapper before
\* cache.set is reached.
onThrow_Caches(kind, c, max, key, e) == cache_set(kind, c, max, key, e).c

onThrow(kind, c, max, key, e) == c


---------------------------------------------------------------------------
(* Spec: one memoized function and its environment.                        *)

Objects == {Obj(1)}

Receivers == {Undefined}

ArgLists == {<<Num(1)>>, <<Num(1), Str("ignored")>>, <<Obj(1)>>}

FnResults == {Str("a"), Str("b")}

Fulfilments == {Str("a")}

Errors == {Err("E1")}

CacheChoices ==
    {[kind |-> "Map", maxSize |-> 0]} \cup
    {[kind |-> "LruCache", maxSize |-> n] : n \in 1..MaxMemoLru}

Range(f) == {f[x] : x \in DOMAIN f}

NoCall ==
    [op |-> "none", key |-> "", hit |-> FALSE, outcome |-> "none", ret |-> Undefined]

Init ==
    /\ \E ch \in CacheChoices : cacheKind = ch.kind /\ maxSize = ch.maxSize
    /\ cache = <<>>
    /\ truncateArgs \in BOOLEAN
    /\ fnKind \in {"sync", "throws", "async"}
    /\ weakKeyToKeySegmentCache = <<>>
    /\ weakKeySegmentToKeyCache = <<>>
    /\ i = 0
    /\ registry = {}
    /\ reachable = Objects
    /\ promises = <<>>
    /\ hist = <<>>
    /\ tampered = FALSE
    /\ strongKeySegmentCache = <<>>
    /\ getKeyKind = "default"
    /\ heap = <<>>
    /\ calls = <<>>
    /\ wrappers = <<>>
    /\ stores = <<>>
    /\ invoked = <<>>
    /\ stack = <<>>
    /\ hookError = FALSE
    /\ last = NoCall
    /\ clock = 0
    /\ lastTouch = <<>>
    /\ scen = -1

\* String(v) for a string, a number, a boolean or undefined.
String(v) ==
    CASE v.t = "string"  -> v.s
      [] v.t = "number"  -> IF v.s = "NaN" THEN "NaN" ELSE ToString(v.n)
      [] v.t = "boolean" -> IF v.n = 1 THEN "true" ELSE "false"
      [] OTHER           -> v.t

\* The first argument of a call, undefined when there is none.
FirstArg(args) == IF args = <<>> THEN Undefined ELSE args[1]

\* The key-deriving functions callers pass as options.getKey:
\*   "String"     (arg) => String(arg)
\*   "thisFields" function (a) { return JSON.stringify([a, this.b, this.c]) }
\* The second reads fields of its receiver and throws a TypeError when the
\* receiver is undefined. A third, "optionVals", is the getKey with which
\* memoize itself is memoized: _getKey(fn, ...optionVals).
CustomGetKeys == {"String", "thisFields"}

KeyError == Err("TypeError")

customKey_throws(kind, this) == kind = "thisFields" /\ this.t # "object"

customKey_ArgsOnly(kind, hp, this, args) ==
    IF kind = "String" THEN String(FirstArg(args))
    ELSE "[" \o JSON_stringify(FirstArg(args)) \o "]"

customKey(kind, hp, this, args) ==
    IF kind = "String" THEN String(FirstArg(args))
    ELSE "[" \o JSON_stringify(FirstArg(args)) \o "," \o ToString(hp[this].b)
             \o "," \o ToString(hp[this].c) \o "]"

\* The options argument of memoize: absent, {} or { cache }.
EmptyOptions == [t |-> "options", n |-> 0, s |-> ""]

CacheOption(c) == [t |-> "options", n |-> c.n, s |-> "cache"]

\* The values of the entries of options ?? {}, sorted by option name.
optionVals_None(options) == <<>>

optionVals(options) ==
    IF options.t = "options" /\ options.s = "cache" THEN <<Obj(options.n)>> ELSE <<>>

\* getKey = options?.getKey ?? _serializeArgList(cache), applied to this and
\* args: the key and the state of the default serializer after the call.
getKey_apply_AlwaysDefault(this, args) ==
    serializeArgList(i, weakKeyToKeySegmentCache, registry, weakKeySegmentToKeyCache,
                     <<this>> \o args)

getKey_apply(this, args) ==
    IF getKeyKind = "default"
    THEN serializeArgList(i, weakKeyToKeySegmentCache, registry,
                          weakKeySegmentToKeyCache, <<this>> \o args)
    ELSE IF getKeyKind = "optionVals"
    THEN serializeArgList(i, weakKeyToKeySegmentCache, registry,
                          weakKeySegmentToKeyCache,
                          <<Undefined, args[1]>> \o optionVals(args[2]))
    ELSE [key |-> customKey(getKeyKind, heap, this, args), i |-> i,
          w2s |-> weakKeyToKeySegmentCache, reg |-> registry,
          index |-> weakKeySegmentToKeyCache]

\* Whether getKey.apply(this, args) throws.
getKey_throws(this) == getKeyKind # "default" /\ customKey_throws(getKeyKind, this)

\* getKey.apply(this, args) after the truncation of args.
KeyOf(this, args) == getKey_apply(this, truncate(truncateArgs, args))

\* if (cache.has(key)): the wrapper's test for a hit.
isHit_ByGet(kind, c, k) == cache_get(kind, c, k).ret # Undefined

isHit(kind, c, k) == cache_has(kind, c, k).ret

\* The call gets past getKey and cache.has without an exception.
Keyed(this) == ~getKey_throws(this) /\ ~cache_has_throws(cacheKind)

\* The caller can pass only objects it still holds.
Passable(this, args) ==
    \A a \in Range(<<this>> \o args) : a.t = "object" => a \in reachable

\* The serializer state after getKey.
Serialized(ser) ==
    /\ i' = ser.i
    /\ weakKeyToKeySegmentCache' = ser.w2s
    /\ registry' = ser.reg
    /\ weakKeySegmentToKeyCache' = ser.index

\* calls after a call with this and args: the key it computed, the arguments
\* left after the truncation, when it was made, and the fields the receiver
\* had.
Called(this, args, key) ==
    (<<this>> \o args :>
         [key    |-> key,
          args   |-> truncate(truncateArgs, args),
          at     |-> clock + 1,
          fields |-> IF this \in DOMAIN heap THEN heap[this] ELSE <<>>]) @@ calls

\* The call history is kept by the specifications whose properties read it.
Tracked(this, args) == calls' = Called(this, args, KeyOf(this, args).key)

Untracked == UNCHANGED calls

\* hist after a miss for key: one more invocation of fn, which returned or
\* threw fnRet, the wrapper returning or throwing ret.
Missed(key, outcome, ret, fnRet) ==
    (key :> [count   |-> IF key \in DOMAIN hist THEN hist[key].count + 1 ELSE 1,
             outcome |-> outcome,
             ret     |-> ret,
             fnRet   |-> fnRet]) @@ hist

\* A call whose key is in the cache: return cache.get(key).
CallHit(this, args) ==
    /\ Passable(this, args)
    /\ Keyed(this)
    /\ LET ser == KeyOf(this, args)
           h   == cache_has(cacheKind, cache, ser.key)
           g   == cache_get(cacheKind, h.c, ser.key)
       IN  /\ isHit(cacheKind, cache, ser.key)
           /\ Serialized(ser)
           /\ cache' = g.c
           /\ last' = [op |-> "call", key |-> ser.key, hit |-> TRUE,
                       outcome |-> IF cache_get_throws(cacheKind) THEN "throw"
                                   ELSE "return",
                       ret |-> g.ret]
    /\ clock' = clock + 1
    /\ UNCHANGED <<cacheKind, maxSize, truncateArgs, fnKind, reachable, promises,
                   hist, tampered, hookError, lastTouch, scen,
                   strongKeySegmentCache, getKeyKind, stack, heap,
                   wrappers, stores, invoked>>

\* A miss on which fn returns the value v.
CallMissReturn(this, args, v) ==
    /\ fnKind \in {"sync", "throws"}
    /\ Passable(this, args)
    /\ Keyed(this)
    /\ LET ser == KeyOf(this, args)
           h   == cache_has(cacheKind, cache, ser.key)
       IN  /\ ~isHit(cacheKind, cache, ser.key)
           /\ Serialized(ser)
           /\ cache' = store(cacheKind, h.c, maxSize, ser.key, v)
           /\ hist' = Missed(ser.key, "return", v, v)
           /\ last' = [op |-> "call", key |-> ser.key, hit |-> FALSE,
                       outcome |-> "return", ret |-> v]
    /\ clock' = clock + 1
    /\ UNCHANGED <<cacheKind, maxSize, truncateArgs, fnKind, reachable, promises,
                   tampered, hookError, lastTouch, scen,
                   strongKeySegmentCache, getKeyKind, stack, heap,
                   wrappers, stores, invoked>>

\* A miss on which fn throws e.
CallMissThrow(this, args, e) ==
    /\ fnKind = "throws"
    /\ Passable(this, args)
    /\ Keyed(this)
    /\ LET ser == KeyOf(this, args)
           h   == cache_has(cacheKind, cache, ser.key)
       IN  /\ ~isHit(cacheKind, cache, ser.key)
           /\ Serialized(ser)
           /\ cache' = onThrow(cacheKind, h.c, maxSize, ser.key, e)
           /\ hist' = Missed(ser.key, "throw", e, e)
           /\ last' = [op |-> "call", key |-> ser.key, hit |-> FALSE,
                       outcome |-> "throw", ret |-> e]
    /\ clock' = clock + 1
    /\ UNCHANGED <<cacheKind, maxSize, truncateArgs, fnKind, reachable, promises,
                   tampered, hookError, lastTouch, scen,
                   strongKeySegmentCache, getKeyKind, stack, heap,
                   wrappers, stores, invoked>>

\* A miss on which fn returns a promise p: the wrapper caches and returns
\* q = p.catch(handler).
CallMissPromise(this, args) ==
    /\ fnKind = "async"
    /\ Passable(this, args)
    /\ Keyed(this)
    /\ LET ser == KeyOf(this, args)
           h   == cache_has(cacheKind, cache, ser.key)
           p   == Len(promises) + 1
           q   == Len(promises) + 2
       IN  /\ ~isHit(cacheKind, cache, ser.key)
           /\ Serialized(ser)
           /\ promises' = promises \o
                  <<[state |-> "pending", result |-> Undefined, of |-> 0, key |-> ser.key],
                    [state |-> "pending", result |-> Undefined, of |-> p, key |-> ser.key]>>
           /\ cache' = store(cacheKind, h.c, maxSize, ser.key, cachedPromise(p, q))
           /\ hist' = Missed(ser.key, "return", PromiseRef(q), PromiseRef(p))
           /\ last' = [op |-> "call", key |-> ser.key, hit |-> FALSE,
                       outcome |-> "return", ret |-> PromiseRef(q)]
    /\ clock' = clock + 1
    /\ UNCHANGED <<cacheKind, maxSize, truncateArgs, fnKind, reachable,
                   tampered, hookError, lastTouch, scen,
                   strongKeySegmentCache, getKeyKind, stack, heap,
                   wrappers, stores, invoked>>

\* The promise p that fn returned settles.
Settle(p, state, result) ==
    /\ p \in 1..Len(promises)
    /\ promises[p].of = 0
    /\ promises[p].state = "pending"
    /\ promises' = [promises EXCEPT ![p].state = state, ![p].result = result]
    /\ UNCHANGED <<last, cache, cacheKind, maxSize, truncateArgs, fnKind,
                   weakKeyToKeySegmentCache, weakKeySegmentToKeyCache, i, registry,
                   reachable, hist, tampered, calls, hookError, clock, lastTouch, scen,
                   strongKeySegmentCache, getKeyKind, stack, heap,
                   wrappers, stores, invoked>>

\* The reaction job of q = p.catch(handler) once p is rejected: the handler
\* deletes the key and rethrows, which rejects q with the same reason.
CatchRejected(q) ==
    /\ q \in 1..Len(promises)
    /\ promises[q].of # 0
    /\ promises[q].state = "pending"
    /\ promises[promises[q].of].state = "rejected"
    /\ cache' = catchHandler(cacheKind, cache, promises[q].key)
    /\ promises' = [promises EXCEPT ![q].state = "rejected",
                                    ![q].result = promises[promises[q].of].result]
    /\ UNCHANGED <<last, cacheKind, maxSize, truncateArgs, fnKind,
                   weakKeyToKeySegmentCache, weakKeySegmentToKeyCache, i, registry,
                   reachable, hist, tampered, calls, hookError, clock, lastTouch, scen,
                   strongKeySegmentCache, getKeyKind, stack, heap,
                   wrappers, stores, invoked>>

\* The reaction job of q = p.catch(handler) once p is fulfilled: the handler
\* is not called and q is fulfilled with the same value.
CatchFulfilled(q) ==
    /\ q \in 1..Len(promises)
    /\ promises[q].of # 0
    /\ promises[q].state = "pending"
    /\ promises[promises[q].of].state = "fulfilled"
    /\ promises' = [promises EXCEPT ![q].state = "fulfilled",
                                    ![q].result = promises[promises[q].of].result]
    /\ UNCHANGED <<last, cache, cacheKind, maxSize, truncateArgs, fnKind,
                   weakKeyToKeySegmentCache, weakKeySegmentToKeyCache, i, registry,
                   reachable, hist, tampered, calls, hookError, clock, lastTouch, scen,
                   strongKeySegmentCache, getKeyKind, stack, heap,
                   wrappers, stores, invoked>>

\* The caller deletes an entry: memoized.cache.delete(key).
UserDelete(key) ==
    /\ Map_has(cache, key)
    /\ cache' = cache_delete(cacheKind, cache, key).c
    /\ tampered' = TRUE
    /\ UNCHANGED <<last, cacheKind, maxSize, truncateArgs, fnKind,
                   weakKeyToKeySegmentCache, weakKeySegmentToKeyCache, i, registry,
                   reachable, promises, hist, calls, hookError, clock, lastTouch, scen,
                   strongKeySegmentCache, getKeyKind, stack, heap,
                   wrappers, stores, invoked>>

\* The program drops its last reference to o and o is reclaimed; with it goes
\* o's entry of the WeakMap.
Collect(o) ==
    /\ o \in reachable
    /\ reachable' = reachable \ {o}
    /\ weakKeyToKeySegmentCache' =
           [x \in DOMAIN weakKeyToKeySegmentCache \ {o} |-> weakKeyToKeySegmentCache[x]]
    /\ UNCHANGED <<last, cache, cacheKind, maxSize, truncateArgs, fnKind,
                   weakKeySegmentToKeyCache, i, registry, promises, hist, tampered,
                   calls, hookError, clock, lastTouch, scen,
                   strongKeySegmentCache, getKeyKind, stack, heap,
                   wrappers, stores, invoked>>

\* The FinalizationRegistry calls back with the keySegment held for a
\* reclaimed object.
Finalize(r) ==
    /\ r \in registry
    /\ r.target \notin reachable
    /\ LET done == cleanup(cacheKind, cache, weakKeySegmentToKeyCache, r.held)
       IN  /\ cache' = done.c
           /\ weakKeySegmentToKeyCache' = done.index
           /\ hookError' = (hookError \/ done.threw)
    /\ registry' = registry \ {r}
    /\ UNCHANGED <<last, cacheKind, maxSize, truncateArgs, fnKind, weakKeyToKeySegmentCache,
                   i, reachable, promises, hist, tampered, calls, clock, lastTouch, scen,
                   strongKeySegmentCache, getKeyKind, stack, heap,
                   wrappers, stores, invoked>>

Next ==
    \/ \E this \in Receivers, args \in ArgLists :
           clock < MaxCalls /\ CallHit(this, args) /\ Untracked
    \/ \E this \in Receivers, args \in ArgLists, v \in FnResults :
           clock < MaxCalls /\ CallMissReturn(this, args, v) /\ Untracked
    \/ \E this \in Receivers, args \in ArgLists, e \in Errors :
           clock < MaxCalls /\ CallMissThrow(this, args, e) /\ Untracked
    \/ \E this \in Receivers, args \in ArgLists :
           /\ clock < MaxCalls
           /\ Len(promises) < 2 * MaxAsync
           /\ CallMissPromise(this, args)
           /\ Untracked
    \/ \E p \in 1..Len(promises), v \in Fulfilments : Settle(p, "fulfilled", v)
    \/ \E p \in 1..Len(promises), e \in Errors : Settle(p, "rejected", e)
    \/ \E q \in 1..Len(promises) : CatchRejected(q)
    \/ \E q \in 1..Len(promises) : CatchFulfilled(q)
    \/ \E key \in KeySet(cache) : UserDelete(key)
    \/ \E o \in reachable : Collect(o)
    \/ \E r \in registry : Finalize(r)

Spec == Init /\ [][Next]_vars

---------------------------------------------------------------------------
(* SpecSync: a memoized synchronous function that returns, called with     *)
(* argument lists of different lengths over a Map or an LruCache, with the *)
(* history of its calls kept.                                              *)

SyncArgLists ==
    {<<Num(1)>>, <<Num(1), Num(2)>>, <<Num(1), Num(2), Num(3)>>, <<Obj(1)>>}

SyncResults == {Str("a")}

SyncCacheChoices ==
    {[kind |-> "Map", maxSize |-> 0]} \cup
    {[kind |-> "LruCache", maxSize |-> n] : n \in 1..MaxSyncLru}

InitSync ==
    /\ \E ch \in SyncCacheChoices : cacheKind = ch.kind /\ maxSize = ch.maxSize
    /\ cache = <<>>
    /\ truncateArgs \in BOOLEAN
    /\ fnKind = "sync"
    /\ weakKeyToKeySegmentCache = <<>>
    /\ weakKeySegmentToKeyCache = <<>>
    /\ i = 0
    /\ registry = {}
    /\ reachable = Objects
    /\ promises = <<>>
    /\ hist = <<>>
    /\ tampered = FALSE
    /\ strongKeySegmentCache = <<>>
    /\ getKeyKind = "default"
    /\ heap = <<>>
    /\ calls = <<>>
    /\ wrappers = <<>>
    /\ stores = <<>>
    /\ invoked = <<>>
    /\ stack = <<>>
    /\ hookError = FALSE
    /\ last = NoCall
    /\ clock = 0
    /\ lastTouch = <<>>
    /\ scen = -1

NextSync ==
    \/ \E this \in Receivers, args \in SyncArgLists :
           clock < MaxSyncCalls /\ CallHit(this, args) /\ Tracked(this, args)
    \/ \E this \in Receivers, args \in SyncArgLists, v \in SyncResults :
           clock < MaxSyncCalls /\ CallMissReturn(this, args, v) /\ Tracked(this, args)
    \/ \E key \in KeySet(cache) : UserDelete(key)
    \/ \E o \in reachable : Collect(o)
    \/ \E r \in registry : Finalize(r)

SpecSync == InitSync /\ [][NextSync]_vars

---------------------------------------------------------------------------
(* SpecSer: the key-deriving function of one serializer instance, called   *)
(* directly as getKey.call(this, ...args) on values of every kind, while   *)
(* objects are reclaimed and their cleanup hooks run.                      *)

SerObjects == {Obj(1), Obj(2)}

SerCalls ==
    {<<Undefined>>,
     <<Undefined, Undefined>>,
     <<Undefined, Null>>,
     <<Undefined, NaN>>,
     <<Undefined, Num(0)>>,
     <<Undefined, NegZero>>,
     <<Undefined, Num(1)>>,
     <<Undefined, Str("1")>>,
     <<Undefined, BigInt(1)>>,
     <<Undefined, Str("{0}")>>,
     <<Undefined, SymFor("x")>>,
     <<Undefined, Sym(1, "x")>>,
     <<Undefined, Obj(1)>>,
     <<Undefined, Obj(2)>>,
     <<Undefined, Obj(1), Obj(2)>>,
     <<Obj(1)>>}

InitSer ==
    /\ cacheKind = "Map"
    /\ maxSize = 0
    /\ cache = <<>>
    /\ truncateArgs = FALSE
    /\ fnKind = "sync"
    /\ weakKeyToKeySegmentCache = <<>>
    /\ weakKeySegmentToKeyCache = <<>>
    /\ i = 0
    /\ registry = {}
    /\ reachable = SerObjects
    /\ promises = <<>>
    /\ hist = <<>>
    /\ tampered = FALSE
    /\ strongKeySegmentCache = <<>>
    /\ getKeyKind = "default"
    /\ heap = <<>>
    /\ calls = <<>>
    /\ wrappers = <<>>
    /\ stores = <<>>
    /\ invoked = <<>>
    /\ stack = <<>>
    /\ hookError = FALSE
    /\ last = NoCall
    /\ clock = 0
    /\ lastTouch = <<>>
    /\ scen = -1

\* The key-deriving function asking the cache for the key it derived.
getKey_cache_Probes(kind, c, key) == cache_has(kind, c, key).c

\* The cache after the key-deriving function ran: the function was given the
\* cache for the cleanup hook and calls none of its methods itself.
getKey_cache(kind, c, key) == c

\* getKey.call(this, ...args), as the serializer's tests call it.
GetKey(this, args) ==
    /\ Passable(this, args)
    /\ LET ser == serializeArgList(i, weakKeyToKeySegmentCache, registry,
                                   weakKeySegmentToKeyCache, <<this>> \o args)
       IN  /\ Serialized(ser)
           /\ cache' = getKey_cache(cacheKind, cache, ser.key)
           /\ last' = [op |-> "getKey", key |-> ser.key, hit |-> FALSE,
                       outcome |-> "return", ret |-> Str(ser.key)]
           /\ calls' = (<<this>> \o args :>
                            [key |-> ser.key, args |-> args, at |-> clock + 1]) @@ calls
    /\ clock' = clock + 1
    /\ UNCHANGED <<cacheKind, maxSize, truncateArgs, fnKind, reachable, promises,
                   hist, tampered, hookError, lastTouch, scen,
                   strongKeySegmentCache, getKeyKind, stack, heap,
                   wrappers, stores, invoked>>

NextSer ==
    \/ \E l \in SerCalls : clock < MaxGetKeys /\ GetKey(Head(l), Tail(l))
    \/ \E o \in reachable : Collect(o)
    \/ \E r \in registry : Finalize(r)

SpecSer == InitSer /\ [][NextSer]_vars

---------------------------------------------------------------------------
(* SpecGc: one memoized function called with two objects, alone, together  *)
(* and next to a primitive, while the objects are reclaimed in either      *)
(* order and the cleanup hook runs between calls, caller deletes, LRU      *)
(* evictions and the handlers of failed promises.                          *)

GcObjects == {Obj(1), Obj(2)}

GcArgLists ==
    {<<Obj(1)>>, <<Obj(2)>>, <<Obj(1), Obj(2)>>, <<Obj(1), Num(1)>>, <<Num(1)>>}

GcCacheChoices ==
    {[kind |-> "Map", maxSize |-> 0]} \cup
    {[kind |-> "LruCache", maxSize |-> n] : n \in 1..MaxGcLru}

InitGc ==
    /\ \E ch \in GcCacheChoices : cacheKind = ch.kind /\ maxSize = ch.maxSize
    /\ cache = <<>>
    /\ truncateArgs = FALSE
    /\ fnKind \in {"sync", "async"}
    /\ weakKeyToKeySegmentCache = <<>>
    /\ weakKeySegmentToKeyCache = <<>>
    /\ i = 0
    /\ registry = {}
    /\ reachable = GcObjects
    /\ promises = <<>>
    /\ hist = <<>>
    /\ tampered = FALSE
    /\ strongKeySegmentCache = <<>>
    /\ getKeyKind = "default"
    /\ heap = <<>>
    /\ calls = <<>>
    /\ wrappers = <<>>
    /\ stores = <<>>
    /\ invoked = <<>>
    /\ stack = <<>>
    /\ hookError = FALSE
    /\ last = NoCall
    /\ clock = 0
    /\ lastTouch = <<>>
    /\ scen = -1

NextGc ==
    \/ \E this \in Receivers, args \in GcArgLists :
           clock < MaxGcCalls /\ CallHit(this, args) /\ Tracked(this, args)
    \/ \E this \in Receivers, args \in GcArgLists, v \in SyncResults :
           clock < MaxGcCalls /\ CallMissReturn(this, args, v) /\ Tracked(this, args)
    \/ \E this \in Receivers, args \in GcArgLists :
           /\ clock < MaxGcCalls
           /\ Len(promises) < 2 * MaxGcAsync
           /\ CallMissPromise(this, args)
           /\ Tracked(this, args)
    \/ \E p \in 1..Len(promises), e \in Errors : Settle(p, "rejected", e)
    \/ \E q \in 1..Len(promises) : CatchRejected(q)
    \/ \E key \in KeySet(cache) : UserDelete(key)
    \/ \E o \in reachable : Collect(o)
    \/ \E r \in registry : Finalize(r)

SpecGc == InitGc /\ [][NextGc]_vars

---------------------------------------------------------------------------
(* The older serializer (src/unnamed/part_003 24-95), which the module     *)
(* mod.ts of the tests exports next to memoize and LruCache.               *)

\* The characters U+0001 and U+0002 that delimit its reference tokens.
SOH == "\\x01"
STX == "\\x02"

nextReferenceKeySegment(n) == SOH \o "{" \o ToString(n) \o "}" \o STX

\* One step of its map callback; st carries i, w2s = weakKeySegmentCache,
\* s2s = strongKeySegmentCache, reg = the registrations and segs = segments.
ModSerializeArg(st, arg) ==
    IF arg.t \in {"string", "number", "boolean", "null"}
    THEN [st EXCEPT !.segs = Append(@, JSON_stringify(arg))]
    ELSE IF arg.t = "undefined" THEN [st EXCEPT !.segs = Append(@, "undefined")]
    ELSE IF arg.t = "bigint" THEN [st EXCEPT !.segs = Append(@, ToString(arg.n) \o "n")]
    ELSE IF assertWeakKey(arg)
    THEN IF arg \in DOMAIN st.w2s
         THEN [st EXCEPT !.segs = Append(@, st.w2s[arg])]
         ELSE LET keySegment == nextReferenceKeySegment(st.i)
              IN  [st EXCEPT !.i = @ + 1,
                             !.reg = @ \cup {[target |-> arg, held |-> keySegment]},
                             !.w2s = (arg :> keySegment) @@ @,
                             !.segs = Append(@, keySegment)]
    ELSE IF arg \in DOMAIN st.s2s
         THEN [st EXCEPT !.segs = Append(@, st.s2s[arg])]
         ELSE LET keySegment == nextReferenceKeySegment(st.i)
              IN  [st EXCEPT !.i = @ + 1,
                             !.s2s = (arg :> keySegment) @@ @,
                             !.segs = Append(@, keySegment)]

RECURSIVE ModMapArgs(_, _)
ModMapArgs(st, list) ==
    IF list = <<>> THEN st
    ELSE ModMapArgs(ModSerializeArg(st, Head(list)), Tail(list))

\* Its key-deriving function: every segment, primitive ones included, gets
\* the key appended to its index entry.
ModSerializeArgList(n, w2s, s2s, reg, index, list) ==
    LET st     == ModMapArgs([i |-> n, w2s |-> w2s, s2s |-> s2s, reg |-> reg,
                              segs |-> <<>>], list)
        mapped == join(st.segs)
    IN  [key |-> mapped, i |-> st.i, w2s |-> st.w2s, s2s |-> st.s2s, reg |-> st.reg,
         index |-> pushKey(index, st.segs, mapped)]

\* Its FinalizationRegistry callback: delete the keys of the keySegment from
\* the cache.
ModCleanup(kind, c, index, keySegment) ==
    LET keys == IF keySegment \in DOMAIN index THEN index[keySegment] ELSE <<>>
        done == deleteAll(kind, c, keys)
    IN  [c |-> done.c, index |-> index, threw |-> done.threw]

ModCalls ==
    {<<Undefined, Obj(1)>>,
     <<Undefined, Obj(2)>>,
     <<Undefined, Obj(1), Obj(2)>>,
     <<Undefined, Obj(1), Str("primitive")>>,
     <<Undefined, Str("primitive")>>,
     <<Undefined, SymFor("x")>>,
     <<Undefined, SymFor("y")>>}

InitMod == InitSer

\* getKey.call(this, ...args) on the older serializer.
ModGetKey(this, args) ==
    /\ Passable(this, args)
    /\ LET ser == ModSerializeArgList(i, weakKeyToKeySegmentCache, strongKeySegmentCache,
                                      registry, weakKeySegmentToKeyCache,
                                      <<this>> \o args)
       IN  /\ Serialized(ser)
           /\ strongKeySegmentCache' = ser.s2s
           /\ last' = [op |-> "getKey", key |-> ser.key, hit |-> FALSE,
                       outcome |-> "return", ret |-> Str(ser.key)]
           /\ calls' = (<<this>> \o args :>
                            [key |-> ser.key, args |-> args, at |-> clock + 1]) @@ calls
    /\ clock' = clock + 1
    /\ UNCHANGED <<cache, cacheKind, maxSize, truncateArgs, fnKind, reachable, promises,
                   hist, tampered, hookError, lastTouch, scen, getKeyKind, stack, heap,
                   wrappers, stores, invoked>>

\* The caller stores a value under a key getKey returned: cache.set(key, "!").
Put(key) ==
    /\ ~Map_has(cache, key)
    /\ cache' = cache_set(cacheKind, cache, maxSize, key, Str("!")).c
    /\ UNCHANGED <<last, cacheKind, maxSize, truncateArgs, fnKind,
                   weakKeyToKeySegmentCache, weakKeySegmentToKeyCache, i, registry,
                   reachable, promises, hist, tampered, calls, hookError, clock,
                   lastTouch, scen, strongKeySegmentCache, getKeyKind, stack, heap,
                   wrappers, stores, invoked>>

\* The older serializer's callback runs for the keySegment held for a
\* reclaimed object.
ModFinalize(r) ==
    /\ r \in registry
    /\ r.target \notin reachable
    /\ LET done == ModCleanup(cacheKind, cache, weakKeySegmentToKeyCache, r.held)
       IN  /\ cache' = done.c
           /\ weakKeySegmentToKeyCache' = done.index
           /\ hookError' = (hookError \/ done.threw)
    /\ registry' = registry \ {r}
    /\ UNCHANGED <<last, cacheKind, maxSize, truncateArgs, fnKind, weakKeyToKeySegmentCache,
                   i, reachable, promises, hist, tampered, calls, clock, lastTouch, scen,
                   strongKeySegmentCache, getKeyKind, stack, heap,
                   wrappers, stores, invoked>>

NextMod ==
    \/ \E l \in ModCalls : clock < MaxGetKeys /\ ModGetKey(Head(l), Tail(l))
    \/ \E l \in DOMAIN calls : Put(calls[l].key)
    \/ \E o \in reachable : Collect(o)
    \/ \E r \in registry : ModFinalize(r)

SpecMod == InitMod /\ [][NextMod]_vars

---------------------------------------------------------------------------
(* SpecSym: one memoized synchronous function over a Map, called with      *)
(* registered symbols, which cannot be held weakly, alone and next to an   *)
(* object that is reclaimed.                                               *)

SymArgLists ==
    {<<SymFor("x")>>, <<SymFor("y")>>, <<SymFor("x"), Obj(1)>>, <<Obj(1)>>,
     <<Sym(1, "x")>>}

InitSym ==
    /\ cacheKind = "Map"
    /\ maxSize = 0
    /\ cache = <<>>
    /\ truncateArgs = FALSE
    /\ fnKind = "sync"
    /\ weakKeyToKeySegmentCache = <<>>
    /\ weakKeySegmentToKeyCache = <<>>
    /\ i = 0
    /\ registry = {}
    /\ reachable = Objects
    /\ promises = <<>>
    /\ hist = <<>>
    /\ tampered = FALSE
    /\ strongKeySegmentCache = <<>>
    /\ getKeyKind = "default"
    /\ heap = <<>>
    /\ calls = <<>>
    /\ wrappers = <<>>
    /\ stores = <<>>
    /\ invoked = <<>>
    /\ stack = <<>>
    /\ hookError = FALSE
    /\ last = NoCall
    /\ clock = 0
    /\ lastTouch = <<>>
    /\ scen = -1

NextSym ==
    \/ \E this \in Receivers, args \in SymArgLists :
           clock < MaxSymCalls /\ CallHit(this, args) /\ Tracked(this, args)
    \/ \E this \in Receivers, args \in SymArgLists, v \in SyncResults :
           clock < MaxSymCalls /\ CallMissReturn(this, args, v) /\ Tracked(this, args)
    \/ \E o \in reachable : Collect(o)
    \/ \E r \in registry : Finalize(r)

SpecSym == InitSym /\ [][NextSym]_vars

---------------------------------------------------------------------------
(* SpecOpts: a synchronous function memoized with options (a getKey, a     *)
(* cache object of the caller's, truncateArgs), called as a method of two  *)
(* objects and as a plain function, with the program assigning to the      *)
(* receivers' fields.                                                      *)

OptObjects == {Obj(1), Obj(2)}

OptReceivers == {Undefined} \cup OptObjects

OptArgLists == {<<Num(1)>>, <<Num(1), Str("ignored")>>, <<Str("1")>>}

OptResults == {Str("a")}

\* const obj = { memoized, b: 2, c: 3 }, and later obj.b = 3; obj.c = 5.
FieldChoices == {[b |-> 2, c |-> 3], [b |-> 3, c |-> 5]}

OptChoices ==
    {[getKey |-> "default", cache |-> "Map", truncateArgs |-> t] : t \in BOOLEAN} \cup
    {[getKey |-> g, cache |-> "Map", truncateArgs |-> FALSE] : g \in CustomGetKeys} \cup
    {[getKey |-> "default", cache |-> k, truncateArgs |-> FALSE] : k \in CustomKinds}

InitOpts ==
    /\ \E o \in OptChoices :
           /\ getKeyKind = o.getKey
           /\ cacheKind = o.cache
           /\ truncateArgs = o.truncateArgs
    /\ maxSize = 0
    /\ cache = <<>>
    /\ fnKind = "sync"
    /\ weakKeyToKeySegmentCache = <<>>
    /\ weakKeySegmentToKeyCache = <<>>
    /\ i = 0
    /\ registry = {}
    /\ reachable = OptObjects
    /\ promises = <<>>
    /\ hist = <<>>
    /\ tampered = FALSE
    /\ strongKeySegmentCache = <<>>
    /\ heap = [o \in OptObjects |-> [b |-> 2, c |-> 3]]
    /\ calls = <<>>
    /\ wrappers = <<>>
    /\ stores = <<>>
    /\ invoked = <<>>
    /\ stack = <<>>
    /\ hookError = FALSE
    /\ last = NoCall
    /\ clock = 0
    /\ lastTouch = <<>>
    /\ scen = -1

\* A call on which getKey throws: the exception leaves the wrapper before
\* cache.has is reached.
CallGetKeyThrows(this, args) ==
    /\ Passable(this, args)
    /\ getKey_throws(this)
    /\ last' = [op |-> "call", key |-> "", hit |-> FALSE,
                outcome |-> "throw", ret |-> KeyError]
    /\ clock' = clock + 1
    /\ UNCHANGED <<cache, cacheKind, maxSize, truncateArgs, fnKind,
                   weakKeyToKeySegmentCache, weakKeySegmentToKeyCache, i, registry,
                   reachable, promises, hist, tampered, hookError, lastTouch, scen,
                   strongKeySegmentCache, getKeyKind, stack, heap,
                   wrappers, stores, invoked>>

\* A call on which cache.has throws: the exception leaves the wrapper after
\* getKey and before fn is reached.
CallHasThrows(this, args) ==
    /\ Passable(this, args)
    /\ ~getKey_throws(this)
    /\ cache_has_throws(cacheKind)
    /\ LET ser == KeyOf(this, args)
       IN  /\ Serialized(ser)
           /\ last' = [op |-> "call", key |-> ser.key, hit |-> FALSE,
                       outcome |-> "throw", ret |-> HasError]
    /\ clock' = clock + 1
    /\ UNCHANGED <<cache, cacheKind, maxSize, truncateArgs, fnKind, reachable,
                   promises, hist, tampered, hookError, lastTouch, scen,
                   strongKeySegmentCache, getKeyKind, stack, heap,
                   wrappers, stores, invoked>>

\* The caller invalidates an entry:
\* memoized.cache.delete(memoized.getKey.call(this, ...args)).
Invalidate(this, args) ==
    /\ Passable(this, args)
    /\ ~getKey_throws(this)
    /\ LET ser == getKey_apply(this, args)
       IN  /\ Serialized(ser)
           /\ cache' = cache_delete(cacheKind, cache, ser.key).c
           /\ tampered' = (tampered \/ Map_has(cache, ser.key))
           /\ last' = [op |-> "invalidate", key |-> ser.key,
                       hit |-> Map_has(cache, ser.key), outcome |-> "return",
                       ret |-> Undefined, list |-> <<this>> \o args]
    /\ clock' = clock + 1
    /\ UNCHANGED <<cacheKind, maxSize, truncateArgs, fnKind, reachable, promises,
                   hist, hookError, lastTouch, scen,
                   strongKeySegmentCache, getKeyKind, stack, heap,
                   wrappers, stores, invoked>>

\* The program assigns to the fields b and c of o.
SetFields(o, f) ==
    /\ o \in DOMAIN heap
    /\ heap[o] # f
    /\ heap' = [heap EXCEPT ![o] = f]
    /\ UNCHANGED <<last, cache, cacheKind, maxSize, truncateArgs, fnKind,
                   weakKeyToKeySegmentCache, weakKeySegmentToKeyCache, i, registry,
                   reachable, promises, hist, tampered, calls, hookError, clock,
                   lastTouch, scen, strongKeySegmentCache, getKeyKind, stack,
                   wrappers, stores, invoked>>

\* The fields are assigned to only where the key-deriving function reads them.
NextOpts ==
    \/ \E this \in OptReceivers, args \in OptArgLists :
           clock < MaxOptCalls /\ CallHit(this, args) /\ Tracked(this, args)
    \/ \E this \in OptReceivers, args \in OptArgLists, v \in OptResults :
           clock < MaxOptCalls /\ CallMissReturn(this, args, v) /\ Tracked(this, args)
    \/ \E this \in OptReceivers, args \in OptArgLists :
           /\ clock < MaxOptCalls
           /\ CallGetKeyThrows(this, args)
           /\ calls' = Called(this, args, "")
    \/ \E this \in OptReceivers, args \in OptArgLists :
           clock < MaxOptCalls /\ CallHasThrows(this, args) /\ Tracked(this, args)
    \/ \E o \in OptObjects, f \in FieldChoices :
           getKeyKind = "thisFields" /\ SetFields(o, f)

SpecOpts == InitOpts /\ [][NextOpts]_vars

---------------------------------------------------------------------------
(* SpecInv: a memoized synchronous function whose caller invalidates       *)
(* entries through the exposed cache and getKey.                           *)

InvReceivers == {Undefined, Obj(1)}

InvArgLists == {<<Num(1)>>, <<Num(1), Str("ignored")>>}

InvChoices ==
    {[getKey |-> "default", cache |-> "Map", truncateArgs |-> t] : t \in BOOLEAN} \cup
    {[getKey |-> "String", cache |-> "Map", truncateArgs |-> FALSE]}

InitInv ==
    /\ \E o \in InvChoices :
           /\ getKeyKind = o.getKey
           /\ cacheKind = o.cache
           /\ truncateArgs = o.truncateArgs
    /\ maxSize = 0
    /\ cache = <<>>
    /\ fnKind = "sync"
    /\ weakKeyToKeySegmentCache = <<>>
    /\ weakKeySegmentToKeyCache = <<>>
    /\ i = 0
    /\ registry = {}
    /\ reachable = Objects
    /\ promises = <<>>
    /\ hist = <<>>
    /\ tampered = FALSE
    /\ strongKeySegmentCache = <<>>
    /\ heap = <<>>
    /\ calls = <<>>
    /\ wrappers = <<>>
    /\ stores = <<>>
    /\ invoked = <<>>
    /\ stack = <<>>
    /\ hookError = FALSE
    /\ last = NoCall
    /\ clock = 0
    /\ lastTouch = <<>>
    /\ scen = -1

NextInv ==
    \/ \E this \in InvReceivers, args \in InvArgLists :
           clock < MaxInvOps /\ CallHit(this, args) /\ Tracked(this, args)
    \/ \E this \in InvReceivers, args \in InvArgLists, v \in OptResults :
           clock < MaxInvOps /\ CallMissReturn(this, args, v) /\ Tracked(this, args)
    \/ \E this \in InvReceivers, args \in InvArgLists :
           clock < MaxInvOps /\ Invalidate(this, args) /\ Untracked

SpecInv == InitInv /\ [][NextInv]_vars

---------------------------------------------------------------------------
(* SpecFly: the exported memoize, memoize_ = memoize(memoize, { cache:     *)
(* _cache, getKey }), called with two functions and with no options, {} or *)
(* { cache }, and the wrappers it returns called without arguments. Here   *)
(* cache is _cache, an LruCache(100), and the serializer state is that of  *)
(* _getKey.                                                                *)

\* new LruCache(100)
FlyMaxSize == 100

Fns == {Func(1), Func(2)}

\* The wrapper with identity w, as a value.
WrapperRef(w) == [t |-> "wrapper", n |-> w, s |-> ""]

\* What fn returns when a wrapper invokes it.
FlyResult(fn) == Num(fn.n)

\* Every wrapper over the same Map.
NewMap_Same == Obj(1)

\* The state _serializeArgList(cache) creates for the getKey it returns: an
\* empty WeakMap, an empty index, the counter at 0 and a registry of its own.
NewSerializer == [i |-> 0, w2s |-> <<>>, reg |-> {}, index |-> <<>>]

\* The Map created next, by the caller or by memoize.
NewMap == Obj(Cardinality(DOMAIN stores) + 1)

\* The Map objects the caller created and passed as options.cache.
CallerMaps == {wrappers[w].cache : w \in {x \in DOMAIN wrappers : wrappers[x].given}}

\* The options a caller can pass: none, {}, a fresh Map or a Map passed before.
FlyOptions ==
    {Undefined, EmptyOptions} \cup {CacheOption(c) : c \in CallerMaps \cup {NewMap}}

InitFly ==
    /\ cacheKind = "LruCache"
    /\ maxSize = FlyMaxSize
    /\ cache = <<>>
    /\ truncateArgs = FALSE
    /\ fnKind = "sync"
    /\ getKeyKind = "optionVals"
    /\ weakKeyToKeySegmentCache = <<>>
    /\ weakKeySegmentToKeyCache = <<>>
    /\ i = 0
    /\ registry = {}
    /\ reachable = {}
    /\ promises = <<>>
    /\ hist = <<>>
    /\ tampered = FALSE
    /\ strongKeySegmentCache = <<>>
    /\ heap = <<>>
    /\ calls = <<>>
    /\ wrappers = <<>>
    /\ stores = <<>>
    /\ invoked = <<>>
    /\ stack = <<>>
    /\ hookError = FALSE
    /\ last = NoCall
    /\ clock = 0
    /\ lastTouch = <<>>
    /\ scen = -1

\* memoize(fn, options), the function memoize_ memoizes: a new wrapper over
\* options.cache, or over a new Map when no cache is given.
memoize(fn, options) ==
    LET vals  == optionVals(options)
        given == vals # <<>>
        c     == IF given THEN vals[1] ELSE NewMap
    IN  [wrapper |-> [fn |-> fn, cache |-> c, given |-> given, ser |-> NewSerializer],
         stores  |-> IF c \in DOMAIN stores THEN stores ELSE (c :> <<>>) @@ stores]

\* A call memoize_(fn, options) that finds its key in _cache.
MemoizeHit(fn, options) ==
    /\ Keyed(Undefined)
    /\ LET ser == KeyOf(Undefined, <<fn, options>>)
           h   == cache_has(cacheKind, cache, ser.key)
           g   == cache_get(cacheKind, h.c, ser.key)
       IN  /\ isHit(cacheKind, cache, ser.key)
           /\ Serialized(ser)
           /\ cache' = g.c
           /\ last' = [op |-> "memoize", key |-> ser.key, hit |-> TRUE,
                       outcome |-> "return", ret |-> g.ret]
    /\ clock' = clock + 1
    /\ UNCHANGED <<cacheKind, maxSize, truncateArgs, fnKind, reachable, promises,
                   hist, tampered, hookError, lastTouch, scen,
                   strongKeySegmentCache, getKeyKind, stack, heap,
                   wrappers, stores, invoked>>

\* A call memoize_(fn, options) that misses: memoize runs and its wrapper is
\* stored in _cache.
MemoizeMiss(fn, options) ==
    /\ Keyed(Undefined)
    /\ LET ser == KeyOf(Undefined, <<fn, options>>)
           h   == cache_has(cacheKind, cache, ser.key)
           new == memoize(fn, options)
           val == WrapperRef(Len(wrappers) + 1)
       IN  /\ ~isHit(cacheKind, cache, ser.key)
           /\ Serialized(ser)
           /\ wrappers' = Append(wrappers, new.wrapper)
           /\ stores' = new.stores
           /\ reachable' = reachable \cup {new.wrapper.cache}
           /\ cache' = store(cacheKind, h.c, maxSize, ser.key, val)
           /\ hist' = Missed(ser.key, "return", val, val)
           /\ last' = [op |-> "memoize", key |-> ser.key, hit |-> FALSE,
                       outcome |-> "return", ret |-> val]
    /\ clock' = clock + 1
    /\ UNCHANGED <<cacheKind, maxSize, truncateArgs, fnKind, promises,
                   tampered, hookError, lastTouch, scen,
                   strongKeySegmentCache, getKeyKind, stack, heap, invoked>>

\* invoked after one more invocation of fn by a wrapper over the Map c.
InvokedOnce(fn, c) ==
    (<<fn, c>> :> IF <<fn, c>> \in DOMAIN invoked THEN invoked[<<fn, c>>] + 1 ELSE 1)
        @@ invoked

\* The wrapper w called without receiver or arguments: the default serializer
\* of w gives the key "undefined".
CallWrapper(w) ==
    /\ w \in DOMAIN wrappers
    /\ LET fn  == wrappers[w].fn
           c   == wrappers[w].cache
           key == join(<<"undefined">>)
       IN  IF isHit("Map", stores[c], key)
           THEN /\ last' = [op |-> "wrapper", key |-> key, hit |-> TRUE,
                            outcome |-> "return",
                            ret |-> cache_get("Map", stores[c], key).ret, w |-> w]
                /\ UNCHANGED <<stores, invoked>>
           ELSE /\ stores' = [stores EXCEPT ![c] = store("Map", @, 0, key, FlyResult(fn))]
                /\ invoked' = InvokedOnce(fn, c)
                /\ last' = [op |-> "wrapper", key |-> key, hit |-> FALSE,
                            outcome |-> "return", ret |-> FlyResult(fn), w |-> w]
    /\ UNCHANGED <<cache, cacheKind, maxSize, truncateArgs, fnKind,
                   weakKeyToKeySegmentCache, weakKeySegmentToKeyCache, i, registry,
                   reachable, promises, hist, tampered, calls, hookError, clock,
                   lastTouch, scen, strongKeySegmentCache, getKeyKind, stack, heap, wrappers>>

NextFly ==
    \/ \E fn \in Fns, options \in FlyOptions :
           /\ clock < MaxMemoize
           /\ MemoizeHit(fn, options)
           /\ Tracked(Undefined, <<fn, options>>)
    \/ \E fn \in Fns, options \in FlyOptions :
           /\ clock < MaxMemoize
           /\ MemoizeMiss(fn, options)
           /\ Tracked(Undefined, <<fn, options>>)
    \/ \E w \in DOMAIN wrappers : CallWrapper(w)

SpecFly == InitFly /\ [][NextFly]_vars

---------------------------------------------------------------------------
(* SpecTwo: memoize_(f) for two functions without options, each wrapper    *)
(* with the Map and the serializer memoize created for it, called with an  *)
(* object both callers hold or with a number, asked for keys directly, and *)
(* the object reclaimed with each wrapper's cleanup hook run on its own.   *)

MaxTwoOps == 5

TwoObjects == {Obj(9)}

TwoArgLists == {<<Obj(9)>>, <<Num(1)>>}

InitTwo ==
    /\ cacheKind = "LruCache"
    /\ maxSize = FlyMaxSize
    /\ cache = <<>>
    /\ truncateArgs = FALSE
    /\ fnKind = "sync"
    /\ getKeyKind = "optionVals"
    /\ weakKeyToKeySegmentCache = <<>>
    /\ weakKeySegmentToKeyCache = <<>>
    /\ i = 0
    /\ registry = {}
    /\ reachable = TwoObjects
    /\ promises = <<>>
    /\ hist = <<>>
    /\ tampered = FALSE
    /\ strongKeySegmentCache = <<>>
    /\ heap = <<>>
    /\ calls = <<>>
    /\ wrappers = <<>>
    /\ stores = <<>>
    /\ invoked = <<>>
    /\ stack = <<>>
    /\ hookError = FALSE
    /\ last = NoCall
    /\ clock = 0
    /\ lastTouch = <<>>
    /\ scen = -1

\* The serializer state of wrapper w after its getKey ran on list.
WrapperKey(w, list) ==
    LET s == wrappers[w].ser
    IN  serializeArgList(s.i, s.w2s, s.reg, s.index, list)

\* The wrapper w called with args and no receiver.
WrapperCall(w, args) ==
    /\ w \in DOMAIN wrappers
    /\ Passable(Undefined, args)
    /\ LET fn  == wrappers[w].fn
           c   == wrappers[w].cache
           ser == WrapperKey(w, <<Undefined>> \o args)
       IN  /\ wrappers' = [wrappers EXCEPT ![w].ser = [k \in DOMAIN @ |-> ser[k]]]
           /\ IF isHit("Map", stores[c], ser.key)
              THEN /\ last' = [op |-> "wrapper", key |-> ser.key, hit |-> TRUE,
                               outcome |-> "return",
                               ret |-> cache_get("Map", stores[c], ser.key).ret,
                               w |-> w]
                   /\ UNCHANGED <<stores, invoked>>
              ELSE /\ stores' = [stores EXCEPT
                                    ![c] = store("Map", @, 0, ser.key, FlyResult(fn))]
                   /\ invoked' = InvokedOnce(fn, c)
                   /\ last' = [op |-> "wrapper", key |-> ser.key, hit |-> FALSE,
                               outcome |-> "return", ret |-> FlyResult(fn), w |-> w]
    /\ clock' = clock + 1
    /\ UNCHANGED <<cache, cacheKind, maxSize, truncateArgs, fnKind,
                   weakKeyToKeySegmentCache, weakKeySegmentToKeyCache, i, registry,
                   reachable, promises, hist, tampered, calls, hookError,
                   lastTouch, scen, strongKeySegmentCache, getKeyKind, stack, heap>>

\* wrapper.getKey(...args) of the wrapper w, called directly.
WrapperGetKey(w, args) ==
    /\ w \in DOMAIN wrappers
    /\ Passable(Undefined, args)
    /\ LET ser == WrapperKey(w, <<Undefined>> \o args)
       IN  /\ wrappers' = [wrappers EXCEPT ![w].ser = [k \in DOMAIN @ |-> ser[k]]]
           /\ last' = [op |-> "getKey", key |-> ser.key, hit |-> FALSE,
                       outcome |-> "return", ret |-> Str(ser.key), w |-> w]
    /\ clock' = clock + 1
    /\ UNCHANGED <<cache, cacheKind, maxSize, truncateArgs, fnKind,
                   weakKeyToKeySegmentCache, weakKeySegmentToKeyCache, i, registry,
                   reachable, promises, hist, tampered, calls, hookError,
                   lastTouch, scen, strongKeySegmentCache, getKeyKind, stack, heap,
                   stores, invoked>>

\* The callers drop their last reference to o and o is reclaimed; with it goes
\* o's entry of every WeakMap.
CollectArg(o) ==
    /\ o \in reachable
    /\ o \in TwoObjects
    /\ reachable' = reachable \ {o}
    /\ weakKeyToKeySegmentCache' =
           [x \in DOMAIN weakKeyToKeySegmentCache \ {o} |-> weakKeyToKeySegmentCache[x]]
    /\ wrappers' = [w \in DOMAIN wrappers |->
                       [wrappers[w] EXCEPT
                           !.ser.w2s = [x \in DOMAIN @ \ {o} |-> @[x]]]]
    /\ UNCHANGED <<last, cache, cacheKind, maxSize, truncateArgs, fnKind,
                   weakKeySegmentToKeyCache, i, registry, promises, hist, tampered,
                   calls, hookError, clock, lastTouch, scen,
                   strongKeySegmentCache, getKeyKind, stack, heap, stores, invoked>>

\* The FinalizationRegistry of wrapper w calls back with the keySegment it
\* held for a reclaimed object.
WrapperFinalize(w, r) ==
    /\ w \in DOMAIN wrappers
    /\ r \in wrappers[w].ser.reg
    /\ r.target \notin reachable
    /\ LET c    == wrappers[w].cache
           done == cleanup("Map", stores[c], wrappers[w].ser.index, r.held)
       IN  /\ stores' = [stores EXCEPT ![c] = done.c]
           /\ wrappers' = [wrappers EXCEPT ![w].ser.index = done.index,
                                           ![w].ser.reg = @ \ {r}]
           /\ hookError' = (hookError \/ done.threw)
    /\ UNCHANGED <<last, cache, cacheKind, maxSize, truncateArgs, fnKind,
                   weakKeyToKeySegmentCache, weakKeySegmentToKeyCache, i, registry,
                   reachable, promises, hist, tampered, calls, clock, lastTouch, scen,
                   strongKeySegmentCache, getKeyKind, stack, heap, invoked>>

NextTwo ==
    \/ \E fn \in Fns :
           /\ clock < MaxTwoOps
           /\ MemoizeHit(fn, Undefined)
           /\ Tracked(Undefined, <<fn, Undefined>>)
    \/ \E fn \in Fns :
           /\ clock < MaxTwoOps
           /\ MemoizeMiss(fn, Undefined)
           /\ Tracked(Undefined, <<fn, Undefined>>)
    \/ \E w \in DOMAIN wrappers, args \in TwoArgLists :
           clock < MaxTwoOps /\ WrapperCall(w, args)
    \/ \E w \in DOMAIN wrappers, args \in TwoArgLists :
           clock < MaxTwoOps /\ WrapperGetKey(w, args)
    \/ \E o \in reachable : CollectArg(o)
    \/ \E w \in DOMAIN wrappers : \E r \in wrappers[w].ser.reg : WrapperFinalize(w, r)

SpecTwo == InitTwo /\ [][NextTwo]_vars

---------------------------------------------------------------------------
(* SpecUndef: a memoized synchronous function that returns undefined, or   *)
(* a string, over a Map or an LruCache.                                    *)

UndefArgLists == {<<Num(1)>>, <<Num(2)>>, <<Num(3)>>}

UndefResults == {Undefined, Str("a")}

UndefCacheChoices ==
    {[kind |-> "Map", maxSize |-> 0]} \cup
    {[kind |-> "LruCache", maxSize |-> n] : n \in 1..MaxUndefLru}

InitUndef ==
    /\ \E ch \in UndefCacheChoices : cacheKind = ch.kind /\ maxSize = ch.maxSize
    /\ cache = <<>>
    /\ truncateArgs = FALSE
    /\ fnKind = "sync"
    /\ weakKeyToKeySegmentCache = <<>>
    /\ weakKeySegmentToKeyCache = <<>>
    /\ i = 0
    /\ registry = {}
    /\ reachable = Objects
    /\ promises = <<>>
    /\ hist = <<>>
    /\ tampered = FALSE
    /\ strongKeySegmentCache = <<>>
    /\ getKeyKind = "default"
    /\ heap = <<>>
    /\ calls = <<>>
    /\ wrappers = <<>>
    /\ stores = <<>>
    /\ invoked = <<>>
    /\ stack = <<>>
    /\ hookError = FALSE
    /\ last = NoCall
    /\ clock = 0
    /\ lastTouch = <<>>
    /\ scen = -1

NextUndef ==
    \/ \E this \in Receivers, args \in UndefArgLists :
           clock < MaxUndefCalls /\ CallHit(this, args) /\ Tracked(this, args)
    \/ \E this \in Receivers, args \in UndefArgLists, v \in UndefResults :
           clock < MaxUndefCalls /\ CallMissReturn(this, args, v) /\ Tracked(this, args)

SpecUndef == InitUndef /\ [][NextUndef]_vars

---------------------------------------------------------------------------
(* SpecKey: one memoized function over a Map or an LruCache, called with   *)
(* numbers and an object, while the caller also calls the exposed getKey   *)
(* directly, the object is reclaimed and the cleanup hook runs.            *)

MaxKeyOps == 4

KeyArgLists == {<<Num(1)>>, <<Num(2)>>, <<Obj(1)>>}

InitKey ==
    /\ \E ch \in UndefCacheChoices : cacheKind = ch.kind /\ maxSize = ch.maxSize
    /\ cache = <<>>
    /\ truncateArgs = FALSE
    /\ fnKind = "sync"
    /\ weakKeyToKeySegmentCache = <<>>
    /\ weakKeySegmentToKeyCache = <<>>
    /\ i = 0
    /\ registry = {}
    /\ reachable = Objects
    /\ promises = <<>>
    /\ hist = <<>>
    /\ tampered = FALSE
    /\ strongKeySegmentCache = <<>>
    /\ getKeyKind = "default"
    /\ heap = <<>>
    /\ calls = <<>>
    /\ wrappers = <<>>
    /\ stores = <<>>
    /\ invoked = <<>>
    /\ stack = <<>>
    /\ hookError = FALSE
    /\ last = NoCall
    /\ clock = 0
    /\ lastTouch = <<>>
    /\ scen = -1

NextKey ==
    \/ \E this \in Receivers, args \in KeyArgLists :
           clock < MaxKeyOps /\ CallHit(this, args) /\ Untracked
    \/ \E this \in Receivers, args \in KeyArgLists, v \in SyncResults :
           clock < MaxKeyOps /\ CallMissReturn(this, args, v) /\ Untracked
    \/ \E this \in Receivers, args \in KeyArgLists :
           clock < MaxKeyOps /\ GetKey(this, args)
    \/ \E o \in reachable : Collect(o)
    \/ \E r \in registry : Finalize(r)

SpecKey == InitKey /\ [][NextKey]_vars

---------------------------------------------------------------------------
(* SpecFib: the fibonacci of the tests, fib = memoize((n) => n <= 2n ? 1n  *)
(* : fib(n - 1n) + fib(n - 2n)), over the default Map. fn calls the        *)
(* wrapper while the wrapper is in a miss: a call of the wrapper runs up   *)
(* to the point where fn calls the wrapper again, and each return of fn    *)
(* runs the rest of the wrapper that invoked it.                           *)

MaxFib == 5

MaxFibCalls == 3

InitFib ==
    /\ cacheKind = "Map"
    /\ maxSize = 0
    /\ cache = <<>>
    /\ truncateArgs = FALSE
    /\ fnKind = "sync"
    /\ weakKeyToKeySegmentCache = <<>>
    /\ weakKeySegmentToKeyCache = <<>>
    /\ i = 0
    /\ registry = {}
    /\ reachable = {}
    /\ promises = <<>>
    /\ hist = <<>>
    /\ tampered = FALSE
    /\ strongKeySegmentCache = <<>>
    /\ getKeyKind = "default"
    /\ heap = <<>>
    /\ calls = <<>>
    /\ wrappers = <<>>
    /\ stores = <<>>
    /\ invoked = <<>>
    /\ stack = <<>>
    /\ hookError = FALSE
    /\ last = NoCall
    /\ clock = 0
    /\ lastTouch = <<>>
    /\ scen = -1

\* fib(n) as the wrapper runs it, up to the first of: the cached value
\* returned, fn returning 1n for n <= 2n and the wrapper storing it, or fn
\* about to call fib(n - 1n).
Entered(n) ==
    LET ser == KeyOf(Undefined, <<BigInt(n)>>)
        h   == cache_has(cacheKind, cache, ser.key)
        g   == cache_get(cacheKind, h.c, ser.key)
        one == BigInt(1)
    IN  IF isHit(cacheKind, cache, ser.key)
        THEN [ser |-> ser, hit |-> TRUE, running |-> FALSE, ret |-> g.ret,
              cache |-> g.c, hist |-> hist]
        ELSE IF n <= 2
        THEN [ser |-> ser, hit |-> FALSE, running |-> FALSE, ret |-> one,
              cache |-> store(cacheKind, h.c, maxSize, ser.key, one),
              hist |-> Missed(ser.key, "return", one, one)]
        ELSE [ser |-> ser, hit |-> FALSE, running |-> TRUE, ret |-> Undefined,
              cache |-> h.c,
              hist |-> Missed(ser.key, "running", Undefined, Undefined)]

\* The invocation of fn for n that has called nothing yet.
Frame(n, key) == [n |-> n, key |-> key, pc |-> "first", acc |-> 0]

\* The argument of the call of fib the invocation f makes next.
FibArg(f) == IF f.pc = "first" THEN f.n - 1 ELSE f.n - 2

\* The invocation f after the call of fib it made returned v.
Received(f, v) ==
    [f EXCEPT !.acc = @ + v.n,
              !.pc = IF @ = "first" THEN "second" ELSE "done"]

\* The stack with its innermost invocation replaced by f.
WithTop(s, f) == [s EXCEPT ![Len(s)] = f]

\* The caller calls fib(n) while no invocation of fn is running.
FibCall(n) ==
    /\ stack = <<>>
    /\ Keyed(Undefined)
    /\ LET e == Entered(n)
       IN  /\ Serialized(e.ser)
           /\ cache' = e.cache
           /\ hist' = e.hist
           /\ stack' = IF e.running THEN <<Frame(n, e.ser.key)>> ELSE <<>>
           /\ last' = [op |-> "call", key |-> e.ser.key, hit |-> e.hit,
                       outcome |-> IF e.running THEN "running" ELSE "return",
                       ret |-> e.ret]
    /\ clock' = clock + 1
    /\ UNCHANGED <<cacheKind, maxSize, truncateArgs, fnKind, reachable, promises,
                   tampered, calls, hookError, lastTouch, scen,
                   strongKeySegmentCache, getKeyKind, heap,
                   wrappers, stores, invoked>>

\* The innermost running invocation of fn calls fib(n - 1n) or fib(n - 2n).
FibInner ==
    /\ stack # <<>>
    /\ stack[Len(stack)].pc \in {"first", "second"}
    /\ Keyed(Undefined)
    /\ LET f == stack[Len(stack)]
           e == Entered(FibArg(f))
       IN  /\ Serialized(e.ser)
           /\ cache' = e.cache
           /\ hist' = e.hist
           /\ stack' = IF e.running
                       THEN Append(stack, Frame(FibArg(f), e.ser.key))
                       ELSE WithTop(stack, Received(f, e.ret))
    /\ UNCHANGED <<last, clock, cacheKind, maxSize, truncateArgs, fnKind, reachable,
                   promises, tampered, calls, hookError, lastTouch, scen,
                   strongKeySegmentCache, getKeyKind, heap,
                   wrappers, stores, invoked>>

\* The innermost running invocation of fn returns the sum; the wrapper that
\* invoked it stores the sum under its key and returns it, to the invocation
\* that called it or to the caller.
FibReturn ==
    /\ stack # <<>>
    /\ stack[Len(stack)].pc = "done"
    /\ LET f    == stack[Len(stack)]
           val  == BigInt(f.acc)
           rest == SubSeq(stack, 1, Len(stack) - 1)
       IN  /\ cache' = store(cacheKind, cache, maxSize, f.key, val)
           /\ hist' = [hist EXCEPT ![f.key] =
                           [@ EXCEPT !.outcome = "return", !.ret = val, !.fnRet = val]]
           /\ stack' = IF rest = <<>> THEN rest
                       ELSE WithTop(rest, Received(rest[Len(rest)], val))
           /\ last' = IF rest = <<>>
                      THEN [op |-> "call", key |-> f.key, hit |-> FALSE,
                            outcome |-> "return", ret |-> val]
                      ELSE last
    /\ UNCHANGED <<clock, cacheKind, maxSize, truncateArgs, fnKind,
                   weakKeyToKeySegmentCache, weakKeySegmentToKeyCache, i, registry,
                   reachable, promises, tampered, calls, hookError, lastTouch, scen,
                   strongKeySegmentCache, getKeyKind, heap,
                   wrappers, stores, invoked>>

NextFib ==
    \/ \E n \in 1..MaxFib : clock < MaxFibCalls /\ FibCall(n)
    \/ FibInner
    \/ FibReturn

SpecFib == InitFib /\ [][NextFib]_vars

---------------------------------------------------------------------------
(* Properties of the memoized function, checked under Spec.                *)

\* The step just taken was a call of the memoized function.
CallStep == clock' = clock + 1 /\ last'.op = "call"

RECURSIVE SumCounts(_)
SumCounts(S) ==
    IF S = {} THEN 0
    ELSE LET k == CHOOSE x \in S : TRUE
         IN  hist[k].count + SumCounts(S \ {k})

\* The number of times fn has been invoked.
Invocations == SumCounts(DOMAIN hist)

IsPromise(v) == v.t = "promise"

\* C1: with the default Map cache, no explicit deletion and a synchronous fn
\* that does not throw, after every call fn has been invoked exactly once per
\* distinct key called so far.
C1_OncePerDistinctKey ==
    (cacheKind = "Map" /\ fnKind = "sync" /\ ~tampered) =>
        /\ last.op = "call" => last.key \in DOMAIN hist
        /\ \A k \in DOMAIN hist : hist[k].count = 1
        /\ Invocations = Cardinality(DOMAIN hist)

\* Three calls over two distinct keys, the last one a repeat.
C1_Witness ==
    /\ cacheKind = "Map" /\ fnKind = "sync" /\ ~tampered
    /\ clock = 3
    /\ last.hit
    /\ Cardinality(DOMAIN hist) = 2

\* A call whose key is in the cache returns the value stored under the key
\* and does not invoke fn.
HitReturnsStored ==
    /\ last'.ret = Map_get(cache, last'.key)
    /\ hist' = hist
    /\ promises' = promises

\* C2 as stated: a call whose key is in the cache returns the stored value,
\* does not invoke fn, and the returned value equals the value fn returned at
\* the miss that stored the entry.
C2_HitReturnsWhatFnReturned ==
    [][(CallStep /\ Map_has(cache, last'.key)) =>
          /\ HitReturnsStored
          /\ last'.ret = hist[last'.key].fnRet]_vars

\* C2, amended: a call whose key is in the cache returns the stored value and
\* does not invoke fn; the returned value is the one the wrapper returned at
\* the miss that stored the entry, which is fn's return value unless that was
\* a promise p, and then is the promise p.catch(...) derived from it.
C2_HitReturnsWhatMissReturned ==
    [][(CallStep /\ Map_has(cache, last'.key)) =>
          /\ HitReturnsStored
          /\ last'.ret = hist[last'.key].ret
          /\ ~IsPromise(hist[last'.key].fnRet) => last'.ret = hist[last'.key].fnRet
          /\ IsPromise(hist[last'.key].fnRet) =>
                 /\ IsPromise(last'.ret)
                 /\ last'.ret # hist[last'.key].fnRet
                 /\ promises[last'.ret.n].of = hist[last'.key].fnRet.n]_vars

\* A hit has returned the promise derived from the one fn returned.
C2_Witness ==
    /\ last.op = "call"
    /\ last.hit
    /\ IsPromise(last.ret)
    /\ last.ret = hist[last.key].ret
    /\ last.ret # hist[last.key].fnRet

\* The result of the latest miss for key k is a promise in the given state.
LatestIs(k, state) ==
    /\ k \in DOMAIN hist
    /\ IsPromise(hist[k].ret)
    /\ promises[hist[k].ret.n].state = state

\* A settled promise q = p.catch(handler) has the state and the value or
\* reason of p.
DerivedMirrorsSource ==
    \A q \in 1..Len(promises) :
        (promises[q].of # 0 /\ promises[q].state # "pending") =>
            /\ promises[q].state = promises[promises[q].of].state
            /\ promises[q].result = promises[promises[q].of].result

\* C3: (default Map cache, no explicit deletion) after a miss on which fn
\* returned a promise, every call with an equal key made before the result
\* settles returns the very promise the first caller received and does not
\* invoke fn; that promise settles with the outcome of fn's promise, so all
\* its holders observe the same value or the same failure reason.
C3_SingleFlight ==
    /\ []DerivedMirrorsSource
    /\ [][(/\ CallStep
           /\ cacheKind = "Map" /\ ~tampered
           /\ LatestIs(last'.key, "pending")) =>
              /\ last'.ret = hist[last'.key].ret
              /\ hist' = hist
              /\ promises' = promises]_vars

\* A second caller has received the promise of the first, and that promise
\* has since been rejected with the reason of fn's promise.
C3_Witness ==
    /\ cacheKind = "Map" /\ ~tampered
    /\ last.op = "call"
    /\ last.hit
    /\ LatestIs(last.key, "rejected")
    /\ last.ret = hist[last.key].ret
    /\ promises[last.ret.n].result \in Errors

\* No cache entry holds a promise that has failed.
NoCachedFailure ==
    \A j \in 1..Len(cache) :
        IsPromise(cache[j].v) => promises[cache[j].v.n].state # "rejected"

\* When the promise cached for a key fails, the key leaves the cache.
FailureEvicts ==
    \A q \in 1..Len(promises) :
        (promises[q].of # 0 /\ promises[q].state = "pending"
            /\ promises'[q].state = "rejected") =>
                ~Map_has(cache', promises[q].key)

\* A call for a key whose latest result has failed invokes fn again.
FailureRetried ==
    (CallStep /\ LatestIs(last'.key, "rejected")) =>
        /\ ~last'.hit
        /\ hist'[last'.key].count = hist[last'.key].count + 1
        /\ last'.ret # hist[last'.key].ret

\* C4: after a pending result stored for key k has failed, k is absent from
\* the cache, and the next call with key k invokes fn again instead of
\* returning the cached failure.
C4_FailureNotCached ==
    /\ []NoCachedFailure
    /\ [][FailureEvicts]_vars
    /\ [][FailureRetried]_vars

\* A key whose first result failed has been called again, fn has run a second
\* time and the new result is cached.
C4_Witness ==
    /\ last.op = "call"
    /\ ~last.hit
    /\ hist[last.key].count = 2
    /\ Map_has(cache, last.key)
    /\ \E q \in 1..Len(promises) :
           /\ promises[q].key = last.key
           /\ promises[q].of # 0
           /\ promises[q].state = "rejected"

\* C5: when fn throws on a miss the error propagates unchanged, the cache is
\* left as it was before the call, and the next call with the same key
\* invokes fn again.
C5_ThrowNotCached ==
    /\ [][(CallStep /\ last'.outcome = "throw") =>
              /\ cache' = cache
              /\ ~Map_has(cache', last'.key)
              /\ last'.ret = hist'[last'.key].fnRet
              /\ last'.ret \in Errors]_vars
    /\ [][(CallStep /\ last'.key \in DOMAIN hist
              /\ hist[last'.key].outcome = "throw") =>
              /\ ~last'.hit
              /\ hist'[last'.key].count = hist[last'.key].count + 1]_vars

\* fn has thrown on a miss while the cache held another entry, and a later
\* call with the same key has invoked fn again.
C5_Witness ==
    /\ last.op = "call"
    /\ ~last.hit
    /\ hist[last.key].count = 2
    /\ \E k \in DOMAIN hist : hist[k].outcome = "throw"
    /\ \E k \in DOMAIN hist : k # last.key /\ Map_has(cache, k)

---------------------------------------------------------------------------
(* Properties of LruCache, checked under SpecLru.                          *)

\* The step just taken was the LruCache method op.
LruStep(op) == clock' = clock + 1 /\ last'.op = op

\* Every key other than k has the same presence and value before and after.
OthersKept(k) ==
    \A x \in LruKeys \ {k} :
        /\ Map_has(cache', x) = Map_has(cache, x)
        /\ Map_get(cache', x) = Map_get(cache, x)

\* The entries other than k are in the same relative order before and after.
OrderKept(k) ==
    SelectSeq(Keys(cache'), LAMBDA x : x # k) = SelectSeq(Keys(cache), LAMBDA x : x # k)

IsMostRecent(c, k) == Len(c) >= 1 /\ c[Len(c)].k = k

\* C6: after every completed set the LruCache holds at most maxSize entries.
C6_SizeAtMostMaxAfterSet ==
    last.op = "set" => Len(cache) <= maxSize

\* A set of a new key into a full cache has completed.
C6_Witness ==
    /\ last.op = "set"
    /\ ~last.exists
    /\ last.size = maxSize
    /\ Len(cache) = maxSize

\* The stored keys, enumerated in order, run from least to most recently touched.
OrderedByTouch ==
    /\ \A j \in 1..Len(cache) : lastTouch[cache[j].k] > 0
    /\ \A a, b \in 1..Len(cache) :
           a < b => lastTouch[cache[a].k] < lastTouch[cache[b].k]

\* The stored key touched longest ago.
LeastRecentlyTouched ==
    CHOOSE e \in KeySet(cache) :
        \A x \in KeySet(cache) : lastTouch[e] <= lastTouch[x]

\* A set that makes the size exceed maxSize evicts exactly the least recently
\* touched entry; any other set evicts nothing.
EvictsLeastRecent ==
    LruStep("set") =>
        IF ~Map_has(cache, last'.key) /\ Len(cache) + 1 > maxSize
        THEN KeySet(cache') = (KeySet(cache) \ {LeastRecentlyTouched}) \cup {last'.key}
        ELSE KeySet(cache') = KeySet(cache) \cup {last'.key}

\* C7: the LruCache keeps its keys in order of last touch (a set, or a get or
\* has on a present key), and a set that overflows maxSize evicts exactly the
\* least recently touched entry.
C7_RefinesReferenceLru ==
    /\ []OrderedByTouch
    /\ [][EvictsLeastRecent]_vars

\* A set of a new key into a full cache of two or more entries has completed,
\* so one of several stored entries was evicted.
C7_Witness ==
    /\ last.op = "set"
    /\ ~last.exists
    /\ last.size = maxSize
    /\ maxSize >= 2
    /\ \E x \in LruKeys : ~Map_has(cache, x) /\ x # last.key

\* A set on a present key overwrites the value, makes the key most recent,
\* keeps the size and evicts nothing.
SetOnPresentKey ==
    (LruStep("set") /\ Map_has(cache, last'.key)) =>
        /\ Len(cache') = Len(cache)
        /\ KeySet(cache') = KeySet(cache)
        /\ IsMostRecent(cache', last'.key)
        /\ Map_get(cache', last'.key) = last'.val
        /\ OthersKept(last'.key)
        /\ OrderKept(last'.key)

\* With maxSize = 3 the sets 1,2,1,3,4 leave keys [1,3,4], key 1 updated.
ScenarioResult ==
    (scen = Len(ScenOps) /\ maxSize = 3) =>
        /\ Keys(cache) = <<1, 3, 4>>
        /\ ~Map_has(cache, 2)
        /\ Map_get(cache, 1) = Str("updated")

\* C8: set on a present key overwrites its value, makes it the most recently
\* used entry, leaves the size unchanged and evicts nothing; the sets
\* 1,2,1,3,4 on an LruCache(3) leave exactly [1,3,4] with key 1 updated.
C8_SetExistingKey ==
    /\ []ScenarioResult
    /\ [][SetOnPresentKey]_vars

\* The sets 1,2,1,3,4 have been performed on an LruCache(3).
C8_Witness ==
    scen = Len(ScenOps) /\ maxSize = 3

\* C9: get on a present key returns the stored value (an undefined value
\* too), makes the key the most recently used and changes neither the set of
\* keys nor any stored value; on an absent key it returns undefined and
\* changes nothing.
C9_Get ==
    [][LruStep("get") =>
          IF Map_has(cache, last'.key)
          THEN /\ last'.ret = Map_get(cache, last'.key)
               /\ IsMostRecent(cache', last'.key)
               /\ KeySet(cache') = KeySet(cache)
               /\ Map_get(cache', last'.key) = Map_get(cache, last'.key)
               /\ OthersKept(last'.key)
               /\ OrderKept(last'.key)
          ELSE /\ last'.ret = Undefined
               /\ cache' = cache]_vars

\* A get has returned the undefined value stored under a present key, next to
\* another entry.
C9_Witness ==
    /\ last.op = "get"
    /\ last.exists
    /\ last.ret = Undefined
    /\ Len(cache) >= 2
    /\ IsMostRecent(cache, last.key)

\* C10: has returns true exactly when the key is stored; on a present key it
\* makes the key the most recently used; it never changes the set of stored
\* keys or the value stored under any key.
C10_Has ==
    [][LruStep("has") =>
          /\ last'.exists = Map_has(cache, last'.key)
          /\ Map_has(cache, last'.key) => IsMostRecent(cache', last'.key)
          /\ KeySet(cache') = KeySet(cache)
          /\ \A x \in LruKeys : Map_get(cache', x) = Map_get(cache, x)
          /\ OrderKept(last'.key)]_vars

\* A has has returned true for a key stored with a value, next to another entry.
C10_Witness ==
    /\ last.op = "has"
    /\ last.exists
    /\ Len(cache) >= 2
    /\ IsMostRecent(cache, last.key)
    /\ Map_get(cache, last.key) # Undefined

\* C11: delete removes the key if it is present and leaves the relative order
\* and the values of the remaining entries unchanged; on an absent key it
\* changes nothing and returns normally (false).
C11_Delete ==
    [][LruStep("delete") =>
          /\ ~Map_has(cache', last'.key)
          /\ last'.exists = Map_has(cache, last'.key)
          /\ KeySet(cache') = KeySet(cache) \ {last'.key}
          /\ OthersKept(last'.key)
          /\ OrderKept(last'.key)
          /\ Keys(cache') = SelectSeq(Keys(cache), LAMBDA x : x # last'.key)
          /\ ~Map_has(cache, last'.key) => cache' = cache]_vars

\* A delete has removed an entry that was neither the oldest nor the only one.
C11_Witness ==
    /\ last.op = "delete"
    /\ last.exists
    /\ last.size = 3
    /\ Len(cache) = 2
    /\ lastTouch[cache[1].k] < clock - 2

---------------------------------------------------------------------------
(* Properties of a memoized synchronous function, checked under SpecSync.  *)

CalledKeys == {calls[l].key : l \in DOMAIN calls}

\* When key k was last called.
LastCall(k) ==
    LET at == {calls[l].at : l \in {x \in DOMAIN calls : calls[x].key = k}}
    IN  CHOOSE t \in at : \A u \in at : u <= t

\* The n most recently called distinct keys.
RecentKeys(n) ==
    {k \in CalledKeys :
        Cardinality({k2 \in CalledKeys : LastCall(k2) > LastCall(k)}) < n}

\* No cleanup hook has run: every token handed out is still registered.
NoCleanupYet == Cardinality(registry) = i

\* A call invokes fn exactly when its key is not among the maxSize most
\* recently called distinct keys.
MissIffNotRecent == last'.hit <=> last'.key \in RecentKeys(maxSize)

\* C12: over an LruCache of capacity N, with no entry removed by the caller or
\* by a cleanup hook, a call of a synchronous fn invokes fn exactly when its
\* key is not among the N most recently called distinct keys.
C12_LruMemo ==
    [][CallStep /\ cacheKind = "LruCache" /\ ~tampered /\ NoCleanupYet
           => /\ MissIffNotRecent
              /\ ~last'.hit => hist'[last'.key].count =
                     (IF last'.key \in DOMAIN hist THEN hist[last'.key].count ELSE 0) + 1
              /\ last'.hit => hist' = hist]_vars

\* Over an LruCache of capacity 2, three distinct keys were called and then
\* the first again, which invoked fn a second time.
C12_Witness ==
    /\ cacheKind = "LruCache"
    /\ maxSize = 2
    /\ ~tampered
    /\ NoCleanupYet
    /\ last.op = "call"
    /\ ~last.hit
    /\ Cardinality(CalledKeys) = 3
    /\ last.key \in DOMAIN hist
    /\ hist[last.key].count = 2
    /\ clock = 4

\* The arguments of the call l = [this, ...args].
ArgsOf(l) == Tail(l)

\* Two calls agree on the receiver and on their first n arguments.
AgreeOnFirst(l1, l2, n) ==
    /\ Head(l1) = Head(l2)
    /\ slice(ArgsOf(l1), n) = slice(ArgsOf(l2), n)

\* With truncateArgs, fn and the key get the first fn.length arguments only,
\* and calls that agree on them share a key.
TruncatedToArity ==
    truncateArgs =>
        \A l1, l2 \in DOMAIN calls :
            /\ calls[l1].args = slice(ArgsOf(l1), FnLength)
            /\ AgreeOnFirst(l1, l2, FnLength) => calls[l1].key = calls[l2].key
            /\ ~AgreeOnFirst(l1, l2, FnLength) => calls[l1].key # calls[l2].key

\* Without truncateArgs, fn and the key get every argument, and calls that
\* differ in any argument have different keys.
EveryArgCounts ==
    ~truncateArgs =>
        \A l1, l2 \in DOMAIN calls :
            /\ calls[l1].args = ArgsOf(l1)
            /\ l1 # l2 => calls[l1].key # calls[l2].key

\* Every key called has invoked fn, and over a Map nobody removed from, once.
InvokedPerKey ==
    /\ CalledKeys = DOMAIN hist
    /\ cacheKind = "Map" /\ ~tampered /\ NoCleanupYet
           => \A k \in CalledKeys : hist[k].count = 1

\* C20: with truncateArgs and a fn of arity N only the first N arguments make
\* the key and reach fn, so calls agreeing on them share one key and one
\* invocation; without it every argument counts and calls differing only in
\* extra arguments have different keys and each invoke fn.
C20_TruncateArgs == TruncatedToArity /\ EveryArgCounts /\ InvokedPerKey

\* With truncateArgs, two calls that differ only after the first fn.length
\* arguments were made: the second was a hit and fn ran once.
C20_Witness ==
    /\ truncateArgs
    /\ cacheKind = "Map"
    /\ ~tampered
    /\ last.op = "call"
    /\ last.hit
    /\ \E l1, l2 \in DOMAIN calls :
           /\ Len(l1) < Len(l2)
           /\ Len(ArgsOf(l1)) >= FnLength
           /\ calls[l1].key = calls[l2].key
           /\ calls[l1].key = last.key
           /\ calls[l1].at < calls[l2].at
           /\ hist[last.key].count = 1

---------------------------------------------------------------------------
(* Properties of the key-deriving function, checked under SpecSer.         *)

\* The step just taken was a direct call of the key-deriving function.
GetKeyStep == clock' = clock + 1 /\ last'.op = "getKey"

\* The list [this, ...args] of the call just made.
JustCalled == CHOOSE l \in DOMAIN calls' : calls'[l].at = clock'

\* Values that are not objects or functions.
IsPrimitive(v) ==
    v.t \in {"undefined", "null", "boolean", "number", "string", "bigint", "symbol"}

\* a === b for primitives: NaN equals nothing, 0 equals -0.
ValueEqual(a, b) ==
    /\ a # NaN
    /\ a = b \/ {a, b} = {Num(0), NegZero}

\* Two lists of primitives of the same length whose elements are value-equal.
PrimitivesEqual(l1, l2) ==
    /\ Len(l1) = Len(l2)
    /\ \A j \in 1..Len(l1) :
           IsPrimitive(l1[j]) /\ IsPrimitive(l2[j]) /\ ValueEqual(l1[j], l2[j])

\* C13: two lists of primitives of the same length that are value-equal
\* element by element get the same key, whatever getKey calls, reclamations
\* and cleanups happened between the two calls.
C13_PrimitivesStable ==
    [][GetKeyStep =>
          \A l \in DOMAIN calls :
              PrimitivesEqual(l, JustCalled) => last'.key = calls[l].key]_vars

\* getKey(0), then another call, then getKey(-0) with the key of getKey(0).
C13_Witness ==
    /\ last.op = "getKey"
    /\ clock = 3
    /\ <<Undefined, Num(0)>> \in DOMAIN calls
    /\ <<Undefined, NegZero>> \in DOMAIN calls
    /\ calls[<<Undefined, Num(0)>>].at = 1
    /\ calls[<<Undefined, NegZero>>].at = 3
    /\ calls[<<Undefined, NegZero>>].key = calls[<<Undefined, Num(0)>>].key
    /\ i >= 1

\* The values the serializer tracks by identity.
IsReference(v) == ~IsPrimitive(v) \/ (v.t = "symbol" /\ v.n >= 1)

\* No two tracked objects share a key segment.
DistinctSegments ==
    \A x, y \in DOMAIN weakKeyToKeySegmentCache :
        x # y => weakKeyToKeySegmentCache[x] # weakKeyToKeySegmentCache[y]

\* getKey(x) # getKey(y) for tracked objects x # y, in any one position.
DistinctObjectKeys ==
    \A l1, l2 \in DOMAIN calls :
        /\ Len(l1) = Len(l2)
        /\ \E j \in 1..Len(l1) :
               /\ IsReference(l1[j]) /\ IsReference(l2[j]) /\ l1[j] # l2[j]
               /\ {l1[j], l2[j]} \subseteq DOMAIN weakKeyToKeySegmentCache
        => calls[l1].key # calls[l2].key

\* A repeated getKey on the same list returns the key it returned before.
RepeatedKeySame ==
    JustCalled \in DOMAIN calls => last'.key = calls[JustCalled].key

\* C14: within one serializer instance two distinct reachable objects never
\* share a key segment, getKey(x) # getKey(y) for them, and a repeated
\* getKey(x) returns the same key.
C14_ReferenceIdentity ==
    /\ [](DistinctSegments /\ DistinctObjectKeys)
    /\ [][GetKeyStep => RepeatedKeySame]_vars

\* getKey(x), getKey(y), then getKey(x) again, both objects still reachable.
C14_Witness ==
    /\ last.op = "getKey"
    /\ clock = 3
    /\ reachable = SerObjects
    /\ {Obj(1), Obj(2)} \subseteq DOMAIN weakKeyToKeySegmentCache
    /\ {<<Undefined, Obj(1)>>, <<Undefined, Obj(2)>>} \subseteq DOMAIN calls
    /\ calls[<<Undefined, Obj(1)>>].at = 3
    /\ calls[<<Undefined, Obj(2)>>].at = 2
    /\ calls[<<Undefined, Obj(1)>>].key = "undefined,{0}"
    /\ calls[<<Undefined, Obj(2)>>].key = "undefined,{1}"

\* Two values are the same logical input: the same value of the same type
\* (0 and -0 alike), or the same object.
SameInput(a, b) == a = b \/ {a, b} = {Num(0), NegZero}

\* C15: the serializer is injective on logical inputs: two argument lists
\* get the same key only if they have the same length and the same logical
\* input at every position.
C15_Injective ==
    \A l1, l2 \in DOMAIN calls :
        calls[l1].key = calls[l2].key
            => /\ Len(l1) = Len(l2)
               /\ \A j \in 1..Len(l1) : SameInput(l1[j], l2[j])

\* The only lists of the model that share a key without being the same input
\* are those with NaN in the place of null.
C15_OnlyNaNCollides ==
    \A l1, l2 \in DOMAIN calls :
        calls[l1].key = calls[l2].key
            => /\ Len(l1) = Len(l2)
               /\ \A j \in 1..Len(l1) :
                      SameInput(l1[j], l2[j]) \/ {l1[j], l2[j]} = {NaN, Null}

---------------------------------------------------------------------------
(* Properties of the cleanup hook, checked under SpecGc.                   *)

\* The step just taken was the cleanup hook for the registration r.
CleanupStep(r) == r \in registry /\ registry' = registry \ {r}

\* The keys getKey produced from a list that holds the object of r, which are
\* the keys that incorporate r's token.
TokenKeys(r) == {calls[l].key : l \in {x \in DOMAIN calls : r.target \in Range(x)}}

\* The entries of c whose key does not incorporate r's token, in order.
OtherEntries(c, r) == SelectSeq(c, LAMBDA en : en.k \notin TokenKeys(r))

\* C16: when the cleanup hook runs for the token of a reclaimed object, every
\* cache entry whose key getKey produced with that token is removed.
C16_CleanupRemovesTokenKeys ==
    [][\A r \in registry :
           CleanupStep(r) => \A k \in TokenKeys(r) : ~Map_has(cache', k)]_vars

\* Both objects were passed together and alone to a synchronous fn over a
\* Map, one of them was reclaimed and its hook removed its two entries.
C16_Witness ==
    /\ cacheKind = "Map"
    /\ fnKind = "sync"
    /\ ~tampered
    /\ i = 2
    /\ Cardinality(registry) = 1
    /\ reachable # {}
    /\ <<Undefined, Obj(1), Obj(2)>> \in DOMAIN calls
    /\ Cardinality(DOMAIN calls) = 3
    /\ Len(cache) = 1
    /\ ~Map_has(cache, calls[<<Undefined, Obj(1), Obj(2)>>].key)

\* C17: the cleanup hook for a token leaves every cache entry whose key does
\* not incorporate the token in place, with its value and its order.
C17_CleanupKeepsOtherKeys ==
    [][\A r \in registry :
           CleanupStep(r) => OtherEntries(cache', r) = OtherEntries(cache, r)]_vars

\* A hook removed the entry of a reclaimed object and the entries of a
\* primitive and of the other object are still in the cache.
C17_Witness ==
    /\ cacheKind = "Map"
    /\ fnKind = "sync"
    /\ ~tampered
    /\ i = 2
    /\ Cardinality(registry) = 1
    /\ Cardinality(DOMAIN calls) = 3
    /\ <<Undefined, Num(1)>> \in DOMAIN calls
    /\ Len(cache) = 2
    /\ Map_has(cache, "undefined,1")

\* C18: after the cleanup hook has processed a token, the segment-to-keys
\* index has no entry for that token.
C18_IndexEntryRemoved ==
    [][\A r \in registry :
           CleanupStep(r) => r.held \notin DOMAIN weakKeySegmentToKeyCache']_vars

---------------------------------------------------------------------------
(* Properties of promise results, checked under Spec.                      *)

\* The promise fn returned at the latest miss for key k has been fulfilled.
LatestSourceFulfilled(k) ==
    /\ k \in DOMAIN hist
    /\ IsPromise(hist[k].fnRet)
    /\ promises[hist[k].fnRet.n].state = "fulfilled"

\* C25: (Map store, no entry deleted by the caller) once the promise fn
\* returned for a key is fulfilled, every later call with an equal key returns
\* the stored promise and does not invoke fn, also when an earlier attempt
\* for the key had failed and been evicted.
C25_FulfilledStaysCached ==
    [][(/\ CallStep
        /\ cacheKind = "Map" /\ ~tampered
        /\ LatestSourceFulfilled(last'.key)) =>
           /\ last'.hit
           /\ last'.ret = hist[last'.key].ret
           /\ last'.ret = Map_get(cache, last'.key)
           /\ promises[last'.ret.n].state \in {"pending", "fulfilled"}
           /\ hist' = hist
           /\ promises' = promises]_vars

\* The first attempt for a key failed and was evicted, the second was
\* fulfilled, and a third call returned the second attempt's promise.
C25_Witness ==
    /\ cacheKind = "Map" /\ ~tampered
    /\ last.op = "call"
    /\ last.hit
    /\ hist[last.key].count = 2
    /\ LatestIs(last.key, "fulfilled")
    /\ last.ret = hist[last.key].ret
    /\ \E q \in 1..Len(promises) :
           promises[q].key = last.key /\ promises[q].state = "rejected"

\* The promises the wrapper returned that have failed: the failure of such a
\* promise is what an awaiter can observe.
FailedResults ==
    {q \in 1..Len(promises) : promises[q].of # 0 /\ promises[q].state = "rejected"}

\* C29: the rejection handler deletes the key before the promise the wrapper
\* returned is rejected, so in every state in which that promise has failed
\* the cache does not hold it under its key.
C29_DeletedBeforeDelivered ==
    \A q \in FailedResults :
        \/ ~Map_has(cache, promises[q].key)
        \/ Map_get(cache, promises[q].key) # PromiseRef(q)

\* A returned promise has failed while the cache holds other entries, and its
\* key is not in the cache.
C29_Witness ==
    /\ FailedResults # {}
    /\ cache # <<>>
    /\ \E q \in FailedResults : ~Map_has(cache, promises[q].key)
    /\ ~tampered

\* A computation for key k is in flight: a promise fn returned for k is
\* pending.
PendingFor(k) ==
    \E p \in 1..Len(promises) :
        promises[p].of = 0 /\ promises[p].key = k /\ promises[p].state = "pending"

\* The promise fn returned from which the promise q comes (q itself if fn
\* returned it).
SourceOf(q) == IF promises[q].of = 0 THEN q ELSE promises[q].of

\* The cache holds under k the promise of a computation still in flight.
PendingStored(k) ==
    /\ Map_has(cache, k)
    /\ IsPromise(Map_get(cache, k))
    /\ promises[SourceOf(Map_get(cache, k).n)].state = "pending"

\* C30 as stated: with any backing store, under caller deletes and LRU
\* evictions, a call for key k made while a computation for k is pending
\* returns that pending result and does not invoke fn.
C30_SingleFlightAnyStore ==
    [][(CallStep /\ PendingFor(last'.key)) =>
          /\ last'.ret = hist[last'.key].ret
          /\ hist' = hist
          /\ promises' = promises]_vars

\* C30, amended: with any backing store, a call for key k made while the
\* entry of a pending computation for k is still in the cache (not deleted
\* by the caller, not evicted) returns that same pending result and does not
\* invoke fn.
C30_SingleFlightWhileStored ==
    [][(CallStep /\ PendingStored(last'.key)) =>
          /\ last'.hit
          /\ last'.ret = Map_get(cache, last'.key)
          /\ last'.ret = hist[last'.key].ret
          /\ hist' = hist
          /\ promises' = promises]_vars

\* Over an LruCache, the pending entry of a key was deleted, the key was
\* called again, which started a second computation, and a third call
\* returned the second pending result.
C30_Witness ==
    /\ cacheKind = "LruCache"
    /\ tampered
    /\ last.op = "call"
    /\ last.hit
    /\ hist[last.key].count = 2
    /\ IsPromise(last.ret)
    /\ last.ret = hist[last.key].ret
    /\ \A p \in 1..Len(promises) : promises[p].state = "pending"

---------------------------------------------------------------------------
(* Properties of values that cannot be held weakly, checked under SpecSym. *)

\* A reference-like value that new WeakRef rejects: a registered symbol.
Untrackable(v) == v.t = "symbol" /\ v.n = 0

\* The lists called so far that hold an untrackable value.
UntrackableCalls == {l \in DOMAIN calls : \E j \in 1..Len(l) : Untrackable(l[j])}

\* The lists called so far that hold no object the serializer tracks weakly.
UntrackedCalls ==
    {l \in DOMAIN calls : \A j \in 1..Len(l) : IsPrimitive(l[j]) /\ ~IsReference(l[j])}

\* No registration and no WeakMap entry is made for an untrackable value.
NeverRegistered ==
    /\ \A r \in registry : ~Untrackable(r.target)
    /\ \A x \in DOMAIN weakKeyToKeySegmentCache : ~Untrackable(x)

\* Lists that differ only in the untrackable value they hold differ in key.
DistinctUntrackableKeys ==
    \A l1, l2 \in UntrackableCalls :
        (Len(l1) = Len(l2) /\ l1 # l2) => calls[l1].key # calls[l2].key

\* C28: serializing a value that cannot be held weakly raises no error: the
\* call returns with a key, the same value gets the same segment on every
\* later call, distinct such values get distinct segments, and no cleanup
\* hook removes an entry keyed by such values only.
C28_UntrackableValues ==
    /\ [](NeverRegistered /\ DistinctUntrackableKeys)
    /\ [][\A l \in UntrackableCalls :
              l \in DOMAIN calls' /\ calls'[l].key = calls[l].key]_vars
    /\ [][(clock' = clock + 1 /\ \E l \in DOMAIN calls' :
                  calls'[l].at = clock' /\ l \in UntrackableCalls')
              => last'.outcome = "return" /\ last'.key # ""]_vars
    /\ [][\A r \in registry :
              CleanupStep(r) =>
                  \A l \in UntrackedCalls :
                      Map_has(cache, calls[l].key) =>
                          /\ Map_has(cache', calls[l].key)
                          /\ Map_get(cache', calls[l].key) = Map_get(cache, calls[l].key)]_vars

\* Two registered symbols were passed, one of them twice, and the cleanup
\* hook of a reclaimed object has run next to their entries.
C28_Witness ==
    /\ Cardinality(UntrackableCalls) >= 2
    /\ \E l \in UntrackedCalls \cap UntrackableCalls : Map_has(cache, calls[l].key)
    /\ i >= 1
    /\ registry = {}
    /\ weakKeySegmentToKeyCache = <<>>

---------------------------------------------------------------------------
(* Properties of a function memoized with options, checked under SpecOpts. *)

\* The key the default serializer gives the call l of primitives: the
\* receiver's segment, then one segment per argument left by the truncation.
ReceiverSegment(this) ==
    IF this.t = "object" THEN weakKeyToKeySegmentCache[this] ELSE "undefined"

ReceiverFirst(l) ==
    calls[l].key =
        join(<<ReceiverSegment(Head(l))>> \o
             [j \in 1..Len(calls[l].args) |-> JSON_stringify(calls[l].args[j])])

\* With the default serializer the receiver is the first segment of the key,
\* and calls with different receivers have different keys.
ReceiverInDefaultKey ==
    getKeyKind = "default" =>
        \A l1, l2 \in DOMAIN calls :
            /\ ReceiverFirst(l1)
            /\ Head(l1) # Head(l2) => calls[l1].key # calls[l2].key

\* With the getKey that reads the receiver's fields, a call of a list called
\* before, made after the fields changed, has a new key, and a key that was
\* never computed before invokes fn.
ReceiverStateInCustomKey ==
    (CallStep /\ getKeyKind = "thisFields" /\ last'.outcome # "throw") =>
        /\ \A l \in DOMAIN calls :
               (l = JustCalled /\ calls'[l].fields # calls[l].fields)
                   => last'.key # calls[l].key
        /\ last'.key \notin DOMAIN hist =>
               /\ ~last'.hit
               /\ last'.key \in DOMAIN hist'
               /\ hist'[last'.key].count = 1

\* C21: the receiver of a call reaches getKey and fn: with the default
\* serializer the receiver is the first segment of the key, so calls with
\* equal arguments and different receiver objects have different entries; with
\* a getKey that reads the receiver, a change of the receiver's state that
\* changes the key makes the next call invoke fn again.
C21_ReceiverPassedOn ==
    /\ []ReceiverInDefaultKey
    /\ [][ReceiverStateInCustomKey]_vars

\* The same list was called on the same object before and after its fields
\* were assigned to, and fn ran both times.
C21_Witness ==
    /\ getKeyKind = "thisFields"
    /\ last.op = "call"
    /\ ~last.hit
    /\ \E l \in DOMAIN calls :
           /\ calls[l].at = clock
           /\ calls[l].fields = [b |-> 3, c |-> 5]
           /\ calls[l].key = last.key
           /\ hist[last.key].count = 1
    /\ Cardinality(DOMAIN hist) >= 2

\* C23: with a custom getKey the entry a call uses is decided by the value
\* getKey returns alone: calls whose custom keys are equal share one entry and
\* one invocation of fn although their arguments differ, calls whose custom
\* keys differ each invoke fn, and the default serializer is never used.
C23_CustomKeyDecides ==
    getKeyKind \in CustomGetKeys =>
        /\ getKeyKind = "String" =>
               \A l1, l2 \in DOMAIN calls :
                   (calls[l1].key = calls[l2].key)
                       <=> (String(FirstArg(ArgsOf(l1))) = String(FirstArg(ArgsOf(l2))))
        /\ \A l \in DOMAIN calls : calls[l].key # "" => calls[l].key \in DOMAIN hist
        /\ \A k \in DOMAIN hist : hist[k].count = 1
        /\ KeySet(cache) = DOMAIN hist
        /\ i = 0
        /\ registry = {}
        /\ weakKeyToKeySegmentCache = <<>>
        /\ weakKeySegmentToKeyCache = <<>>

\* Three calls with different arguments and an object as receiver, two of
\* them with the same custom key: fn ran twice.
C23_Witness ==
    /\ getKeyKind = "String"
    /\ \E l1, l2 \in DOMAIN calls :
           /\ FirstArg(ArgsOf(l1)) # FirstArg(ArgsOf(l2))
           /\ Head(l1).t = "object"
           /\ calls[l1].key = calls[l2].key
           /\ hist[calls[l1].key].count = 1
    /\ last.hit

\* The invocations of fn for key k so far.
InvokedFor(k) == IF k \in DOMAIN hist THEN hist[k].count ELSE 0

\* A call answered from the cache follows a has that returned true; over the
\* cache whose has is always false no call is answered from the cache, none
\* fails in get, and each invokes fn.
GetOnlyAfterHas ==
    CallStep =>
        /\ last'.hit => cacheKind \in {"Map", "LruCache"} /\ Map_has(cache, last'.key)
        /\ cacheKind = "Useless" =>
               /\ ~last'.hit
               /\ last'.outcome = "return"
               /\ last'.ret # GetError
               /\ hist'[last'.key].count = InvokedFor(last'.key) + 1

\* C24: cache.get(key) is called only in a call in which cache.has(key) has
\* just returned true; over a custom cache whose has always returns false, get
\* is never called and every call invokes fn.
C24_GetOnlyAfterHas == [][GetOnlyAfterHas]_vars

\* The same key was called twice over the useless cache and fn ran twice.
C24_Witness ==
    /\ cacheKind = "Useless"
    /\ last.op = "call"
    /\ last.outcome = "return"
    /\ hist[last.key].count = 2

\* A call that fails in getKey or in cache.has: the caller gets the error of
\* the callee, fn is not invoked and the cache is as it was.
FailurePropagates ==
    CallStep =>
        /\ getKey_throws(Head(JustCalled)) =>
               last'.outcome = "throw" /\ last'.ret = KeyError
        /\ (~getKey_throws(Head(JustCalled)) /\ cacheKind = "Throwing") =>
               last'.outcome = "throw" /\ last'.ret = HasError
        /\ last'.outcome = "throw" =>
               /\ last'.ret \in {KeyError, HasError}
               /\ hist' = hist
               /\ cache' = cache
        /\ (~getKey_throws(Head(JustCalled)) /\ cacheKind # "Throwing") =>
               last'.outcome = "return"

\* C27: an error thrown by the caller's getKey or cache reaches the caller of
\* the memoized function as it is; when getKey or cache.has throws, fn is not
\* invoked and the cache is unchanged; no call fails for another reason.
C27_FailurePropagates == [][FailurePropagates]_vars

\* A call failed in getKey or in cache.has after an earlier call.
C27_Witness ==
    /\ last.op = "call"
    /\ last.outcome = "throw"
    /\ clock >= 2
    /\ \/ last.ret = KeyError /\ hist # <<>> /\ cache # <<>>
       \/ last.ret = HasError /\ cacheKind = "Throwing"

---------------------------------------------------------------------------
(* Properties of manual invalidation, checked under SpecInv.               *)

\* The step is a call with the receiver and arguments the caller has just
\* invalidated.
RecallAfterInvalidate ==
    CallStep /\ last.op = "invalidate" /\ JustCalled = last.list

\* The step repeats the call made by the step before it, which was a miss.
RecallAfterMiss ==
    /\ CallStep
    /\ last.op = "call"
    /\ ~last.hit
    /\ JustCalled \in DOMAIN calls
    /\ calls[JustCalled].at = clock

\* The call invokes fn once more.
InvokedAgain ==
    /\ ~last'.hit
    /\ hist'[last'.key].count = InvokedFor(last'.key) + 1

\* The arguments of the invalidation are no more than the wrapper keeps.
WithinArity == ~truncateArgs \/ Len(ArgsOf(last.list)) <= FnLength

---------------------------------------------------------------------------
(* Properties of on-the-fly memoization, checked under SpecFly.            *)

\* No options and {} have the same option values; { cache } has the cache.
OptionValues(options) == IF options = Undefined THEN EmptyOptions ELSE options

\* Two calls of memoize with the same fn and the same option values.
SameMemoization(l1, l2) ==
    l1[2] = l2[2] /\ OptionValues(l1[3]) = OptionValues(l2[3])

\* The wrappers memoize created for fn without a cache option.
OwnCacheWrappers(fn) ==
    {w \in DOMAIN wrappers : wrappers[w].fn = fn /\ ~wrappers[w].given}

\* C26: the exported memoize is memoized on fn and the option values: calls
\* with the same fn and no options or {} get one wrapper and one cache, so fn
\* runs once across them; each fresh cache object gets a wrapper of its own,
\* in which fn runs once; the same cache object passed again gets the wrapper
\* made for it before, and shares its results.
C26_OnTheFly ==
    /\ \A l1, l2 \in DOMAIN calls :
           (calls[l1].key = calls[l2].key) <=> SameMemoization(l1, l2)
    /\ \A k \in DOMAIN hist : hist[k].count = 1
    /\ Len(wrappers) = Cardinality(DOMAIN hist)
    /\ \A fn \in Fns : Cardinality(OwnCacheWrappers(fn)) <= 1
    /\ \A w1, w2 \in DOMAIN wrappers :
           (w1 # w2 /\ wrappers[w1].fn = wrappers[w2].fn)
               => wrappers[w1].cache # wrappers[w2].cache
    /\ \A x \in DOMAIN invoked : invoked[x] = 1
    /\ (last.op = "memoize" /\ last.hit) => last.ret = hist[last.key].ret

\* memoize(fn), memoize(fn, {}) and memoize(fn, { cache: new Map() }) were
\* called: two wrappers exist, fn ran once in each, and the last call of a
\* wrapper was answered from its cache.
C26_Witness ==
    /\ \E fn \in Fns :
           /\ <<Undefined, fn, Undefined>> \in DOMAIN calls
           /\ <<Undefined, fn, EmptyOptions>> \in DOMAIN calls
           /\ \E c \in CallerMaps :
                  /\ <<Undefined, fn, CacheOption(c)>> \in DOMAIN calls
                  /\ <<fn, c>> \in DOMAIN invoked
           /\ Cardinality({x \in DOMAIN invoked : x[1] = fn}) = 2
    /\ Len(wrappers) = 2
    /\ last.op = "wrapper"
    /\ last.hit

---------------------------------------------------------------------------
(* Properties of a failure that arrives after its entry was replaced,      *)
(* checked under Spec.                                                     *)

\* The step rejects the derived promise q: its rejection handler has run.
RejectionStep(q) ==
    /\ promises[q].of # 0
    /\ promises[q].state = "pending"
    /\ promises'[q].state = "rejected"

\* The key of q holds the result of another, later computation.
Superseded(q) ==
    /\ Map_has(cache, promises[q].key)
    /\ Map_get(cache, promises[q].key) # PromiseRef(q)

\* C31: the failure of a pending result removes only its own cache entry: if
\* its entry was deleted or evicted while it was pending and a later call
\* stored a new result under the same key, the failure leaves that new entry
\* in the cache.
C31_FailureKeepsLaterEntry ==
    [][\A q \in 1..Len(promises) :
           (RejectionStep(q) /\ Superseded(q)) =>
               /\ Map_has(cache', promises[q].key)
               /\ Map_get(cache', promises[q].key) = Map_get(cache, promises[q].key)]_vars

---------------------------------------------------------------------------
(* Properties of the reference tokens, checked under SpecGc.               *)

\* The token made from the counter value n.
Token(n) == "{" \o ToString(n) \o "}"

\* The tokens made so far: those of the counter values below i.
TokensMade == {Token(n) : n \in 0..(i - 1)}

\* The position at which the value o first appears in the list l.
FirstPos(l, o) == CHOOSE j \in 1..Len(l) : l[j] = o /\ \A h \in 1..(j - 1) : l[h] # o

\* The objects that get their token in this step.
NewlySeen == DOMAIN weakKeyToKeySegmentCache' \ DOMAIN weakKeyToKeySegmentCache

\* Every token in use was made from a counter value already passed, and no
\* two objects hold the same token.
TokensFromCounter ==
    /\ \A o \in DOMAIN weakKeyToKeySegmentCache :
           weakKeyToKeySegmentCache[o] \in TokensMade
    /\ \A o1, o2 \in DOMAIN weakKeyToKeySegmentCache :
           weakKeyToKeySegmentCache[o1] = weakKeyToKeySegmentCache[o2] => o1 = o2
    /\ \A r \in registry : r.held \in TokensMade
    /\ \A r1, r2 \in registry : r1.held = r2.held => r1.target = r2.target
    /\ DOMAIN weakKeySegmentToKeyCache \subseteq TokensMade

\* The counter never decreases; it advances by one for each object seen for
\* the first time, which gets the next counter values in the order of the
\* list [this, ...args]; an object keeps the token it has.
TokensInOrder ==
    /\ i' >= i
    /\ i' - i = Cardinality(NewlySeen)
    /\ \A o \in DOMAIN weakKeyToKeySegmentCache \cap DOMAIN weakKeyToKeySegmentCache' :
           weakKeyToKeySegmentCache'[o] = weakKeyToKeySegmentCache[o]
    /\ \A o \in NewlySeen :
           weakKeyToKeySegmentCache'[o] =
               Token(i + Cardinality({o2 \in NewlySeen :
                                         FirstPos(JustCalled, o2) < FirstPos(JustCalled, o)}))

\* C32: reference tokens are {0}, {1}, {2}, ... in the order in which objects
\* first appear in [this, ...args]; the counter only increases, and a token is
\* never given to a second object, also after the first one was reclaimed and
\* its cleanup hook has run.
C32_TokensInOrder == []TokensFromCounter /\ [][TokensInOrder]_vars

\* The first object got {0}, was reclaimed and cleaned up, and the second
\* object, first seen after that, got {1}.
C32_Witness ==
    /\ i = 2
    /\ Obj(1) \notin reachable
    /\ \A r \in registry : r.target # Obj(1)
    /\ Obj(2) \in DOMAIN weakKeyToKeySegmentCache
    /\ weakKeyToKeySegmentCache[Obj(2)] = "{1}"
    /\ Cardinality(registry) = 1
    /\ "{0}" \notin DOMAIN weakKeySegmentToKeyCache

---------------------------------------------------------------------------
(* Properties of the segment-to-keys index, checked under SpecGc.          *)

\* The keys listed in the index entry of the token s.
IndexedKeys(s) ==
    IF s \in DOMAIN weakKeySegmentToKeyCache
    THEN Range(weakKeySegmentToKeyCache[s]) ELSE {}

\* C33: for every key getKey returned and every reference token in it whose
\* cleanup hook has not run, the index entry of the token contains the key; so
\* every cache key that incorporates such a token is listed in the token's
\* index entry.
C33_IndexComplete ==
    \A r \in registry :
        /\ \A l \in DOMAIN calls :
               r.target \in Range(l) => calls[l].key \in IndexedKeys(r.held)
        /\ \A k \in KeySet(cache) :
               k \in TokenKeys(r) => k \in IndexedKeys(r.held)

\* A cached key holds the tokens of both objects and is listed under both,
\* after another key of the first object was cached as well.
C33_Witness ==
    /\ Cardinality(registry) = 2
    /\ \E l \in DOMAIN calls :
           /\ GcObjects \subseteq Range(l)
           /\ Map_has(cache, calls[l].key)
           /\ \A r \in registry : calls[l].key \in IndexedKeys(r.held)
    /\ Len(cache) >= 2

\* How often the key k is listed in the sequence keys.
Occurrences(keys, k) == Cardinality({j \in 1..Len(keys) : keys[j] = k})

\* Every index entry lists each of its keys once.
NoDuplicateKeys ==
    \A s \in DOMAIN weakKeySegmentToKeyCache :
        \A k \in Range(weakKeySegmentToKeyCache[s]) :
            Occurrences(weakKeySegmentToKeyCache[s], k) = 1

\* The step calls the memoized function, or getKey, with a receiver and
\* arguments it was called with before.
RepeatedCall ==
    /\ clock' = clock + 1
    /\ last'.op \in {"call", "getKey"}
    /\ JustCalled \in DOMAIN calls

\* C34: the index does not grow under repeated identical calls: an index
\* entry holds each key at most once, and a call with a receiver and arguments
\* used before, whose objects are all still held, leaves the index unchanged.
C34_IndexDoesNotGrow ==
    /\ []NoDuplicateKeys
    /\ [][RepeatedCall => weakKeySegmentToKeyCache' = weakKeySegmentToKeyCache]_vars

---------------------------------------------------------------------------
(* Properties of a function that returns undefined, checked under          *)
(* SpecUndef.                                                              *)

\* C35: a cached undefined is a hit: a call whose key was stored, and for an
\* LruCache not evicted since, returns the stored value without invoking fn,
\* also when that value is undefined; so over a Map fn is invoked once per
\* key, and over an LruCache exactly when the key is not among the maxSize
\* most recently called keys.
C35_UndefinedIsHit ==
    /\ [](cacheKind = "Map" => \A k \in DOMAIN hist : hist[k].count = 1)
    /\ [][CallStep =>
              /\ cacheKind = "Map" => (last'.hit <=> last'.key \in DOMAIN hist)
              /\ cacheKind = "LruCache" => MissIffNotRecent
              /\ last'.hit => hist' = hist /\ last'.ret = hist[last'.key].ret]_vars

\* Over an LruCache fn returned undefined for two keys, once each, and a
\* later call was answered with the cached undefined.
C35_Witness ==
    /\ cacheKind = "LruCache"
    /\ last.op = "call"
    /\ last.hit
    /\ last.ret = Undefined
    /\ Cardinality(DOMAIN hist) = 2
    /\ \A k \in DOMAIN hist : hist[k].count = 1 /\ hist[k].ret = Undefined


---------------------------------------------------------------------------
(* Properties of two memoized functions side by side, checked under        *)
(* SpecTwo                                                                 *)

\* What the claim lists of wrapper w: its cache, its registry, its token
\* counter and its segment-to-keys index.
Instance(w) ==
    [cache    |-> stores[wrappers[w].cache],
     registry |-> wrappers[w].ser.reg,
     i        |-> wrappers[w].ser.i,
     index    |-> wrappers[w].ser.index]

\* Two wrappers of different functions, neither over a cache the caller gave.
Independent(v, w) ==
    /\ v # w
    /\ wrappers[v].fn # wrappers[w].fn
    /\ ~wrappers[v].given
    /\ ~wrappers[w].given

\* This step is a call or a getKey call of wrapper v.
StepOf(v) ==
    /\ last' # last \/ clock' # clock
    /\ last'.op \in {"wrapper", "getKey"}
    /\ last'.w = v

\* This step is the cleanup hook of wrapper v.
HookOf(v) ==
    /\ wrappers'[v].ser.reg # wrappers[v].ser.reg
    /\ wrappers'[v].ser.reg \subseteq wrappers[v].ser.reg

\* C36: for two wrappers created from different functions without a cache
\* option, a call, a getKey call or a cleanup hook of one leaves the cache,
\* the registry, the token counter and the index of the other unchanged.
C36_WrappersIndependent ==
    [][\A v \in DOMAIN wrappers : \A w \in DOMAIN wrappers :
           (Independent(v, w) /\ (StepOf(v) \/ HookOf(v)))
               => Instance(w)' = Instance(w)]_vars

\* Both wrappers were called with the same object, hold a token and an entry
\* for it, and the hook of one has run while the other still has its entry.
C36_Witness ==
    /\ Len(wrappers) = 2
    /\ Independent(1, 2)
    /\ \E v \in {1, 2} :
           /\ wrappers[v].ser.i = 1
           /\ wrappers[v].ser.reg = {}
           /\ stores[wrappers[v].cache] = <<>>
           /\ wrappers[3 - v].ser.i = 1
           /\ wrappers[3 - v].ser.reg # {}
           /\ stores[wrappers[3 - v].cache] # <<>>


---------------------------------------------------------------------------
(* Properties of a synchronous miss over the default Map, checked under    *)
(* SpecSync                                                                *)

\* The step is a miss over a Map in which fn returned a value.
MissReturnStep ==
    /\ CallStep
    /\ cacheKind = "Map"
    /\ ~last'.hit
    /\ last'.outcome = "return"

\* The cache after the step differs from the cache before it in the entry of
\* the call's key alone, which holds what fn returned.
OnePlaceChanged ==
    /\ KeySet(cache') = KeySet(cache) \cup {last'.key}
    /\ Len(cache') = Cardinality(KeySet(cache'))
    /\ Map_get(cache', last'.key) = last'.ret
    /\ \A k \in KeySet(cache) \ {last'.key} : Map_get(cache', k) = Map_get(cache, k)

\* l is the receiver and the arguments of the latest call, as the caller
\* passed them.
IsLatest(l) == calls[l].at = clock

\* cache.get(getKey.call(this, ...args)) for the receiver and arguments l,
\* asked now.
Introspect(l) == Map_get(cache, getKey_apply(Head(l), Tail(l)).key)

\* The wrapper drops none of the arguments of l.
KeepsAll(l) == ~truncateArgs \/ Len(Tail(l)) <= FnLength

\* Introspection with the latest call's receiver and arguments gives the
\* latest call's result.
ResultIntrospectable ==
    \A l \in DOMAIN calls : IsLatest(l) => Introspect(l) = last.ret

\* The same, for calls of which the wrapper drops no argument.
ResultIntrospectableWithinArity ==
    \A l \in DOMAIN calls : (IsLatest(l) /\ KeepsAll(l)) => Introspect(l) = last.ret

---------------------------------------------------------------------------
(* Properties of the exposed getKey called directly, checked under SpecKey *)

\* C39: a direct call of the default getKey leaves the cache as it was, its
\* entries and, for an LruCache, their recency order, and invokes fn for no
\* key; it may register an object and add to the segment-to-keys index.
C39_GetKeyLeavesCache ==
    [][GetKeyStep => cache' = cache /\ hist' = hist]_vars

\* getKey was called directly for a cached key that is not the most recently
\* used of a full LruCache, having registered an object and indexed its key
\* on the way.
C39_Witness ==
    /\ cacheKind = "LruCache"
    /\ Len(cache) = 2
    /\ last.op = "getKey"
    /\ last.key = cache[1].k
    /\ registry # {}
    /\ weakKeySegmentToKeyCache # <<>>


---------------------------------------------------------------------------
(* Properties of re-entrant use, checked under SpecFib                     *)

RECURSIVE Fibonacci(_)
Fibonacci(n) == IF n <= 2 THEN 1 ELSE Fibonacci(n - 1) + Fibonacci(n - 2)

\* The key of fib(n).
FibKey(n) == KeyOf(Undefined, <<BigInt(n)>>).key

\* The keys of the calls the invocation f has made and got an answer to.
Answered(f) ==
    CASE f.pc = "first"  -> {}
      [] f.pc = "second" -> {FibKey(f.n - 1)}
      [] f.pc = "done"   -> {FibKey(f.n - 1), FibKey(f.n - 2)}

\* While an invocation runs its own key is not stored and the keys of the
\* calls it made are.
InnerStoredFirst ==
    \A j \in 1..Len(stack) :
        /\ stack[j].key \notin KeySet(cache)
        /\ Answered(stack[j]) \subseteq KeySet(cache)

\* The step in which an invocation returns stores its key, with every key it
\* called for stored before.
OuterStoredLast ==
    Len(stack') < Len(stack) =>
        LET f == stack[Len(stack)]
        IN  /\ Answered(f) = {FibKey(f.n - 1), FibKey(f.n - 2)}
            /\ Answered(f) \subseteq KeySet(cache)
            /\ f.key \notin KeySet(cache)
            /\ KeySet(cache') = KeySet(cache) \cup {f.key}
            /\ Map_get(cache', f.key) = BigInt(Fibonacci(f.n))

\* C38: when fn calls the wrapper for other keys during a miss, as the
\* recursive fibonacci does, the inner results are stored before the outer
\* call stores its own, and fn is invoked at most once for each key.
C38_ReentrantOncePerKey ==
    /\ [](InnerStoredFirst /\ \A k \in DOMAIN hist : hist[k].count = 1)
    /\ [][OuterStoredLast]_vars

\* fib(5n) has returned 5n after five invocations of fn, two of them still
\* running when fib(3n) was stored.
C38_Witness ==
    /\ stack = <<>>
    /\ last.key = FibKey(5)
    /\ ~last.hit
    /\ last.ret = BigInt(5)
    /\ Invocations = 5
    /\ Len(cache) = 5
    /\ cache[3].k = FibKey(3)
    /\ cache[5].k = FibKey(5)

=============================================================================
